---------------------------- MODULE Spec2Model ----------------------------
(***************************************************************************)
(* Model of the pure-function libraries math_utils.number_theory,          *)
(* math_utils.arithmetic, math_operations, math_utils.py and               *)
(* math_utils.statistics.                                                  *)
(*                                                                         *)
(* Every library function is an operator computed the way the Python code  *)
(* computes it (loops become RECURSIVE operators that carry the loop       *)
(* variables).  A call is one action: it draws its arguments from a        *)
(* bounded set, records them in `args`, and records the outcome in         *)
(* `raised` (the exception class, "" when the call returns) and `result`.  *)
(*                                                                         *)
(* Python ints are unbounded; the bounds below keep every intermediate     *)
(* value far from TLC's 32-bit integers.  A Python float is modelled by    *)
(* the exact rational it denotes, a record [num, den] in lowest terms.     *)
(***************************************************************************)
EXTENDS Integers, Sequences, FiniteSets, TLC

VARIABLES op, args, raised, result, gens, frames, lists

vars == <<op, args, raised, result, gens, frames, lists>>

(* ------------------------------ bounds --------------------------------- *)

\* largest integer handed to is_prime / generate_primes / prime_factors
MaxN == 60
\* extended_gcd, gcd and lcm are called with a, b in -MaxAB..MaxAB
MaxAB == 7
\* a dataset is a list of at most MaxLen ints
MaxLen == 6
\* the elements of a dataset are ints of -1..MaxVal
MaxVal == 1
\* a list of mixed values has at most MaxMixedLen elements
MaxMixedLen == 3
\* gcd_multiple and lcm_multiple get at most MaxArgs ints of -MaxArg..MaxArg
MaxArgs == 3
MaxArg == 6
\* fibonacci_sequence is asked for at most MaxFibLen terms
MaxFibLen == 12
\* is_fibonacci is asked about the Fibonacci numbers up to the MaxFibIndex-th
MaxFibIndex == 80
\* fibonacci_generator is given limits up to MaxLimit
MaxLimit == 13
\* the lists of floats have at most MaxFloatLen elements
MaxFloatLen == 3
\* the generator objects alive at a time are those of GenIds
GenIds == {1, 2}

(* ------------------------- outcomes of a call -------------------------- *)

\* the value of `result` when the call raised
NoValue == "no value"

Return(v) == [raised |-> "", val |-> v]

Raise(e) == [raised |-> e, val |-> NoValue]

(* ----------------------- Python integer arithmetic --------------------- *)

Abs(x) == IF x < 0 THEN -x ELSE x

\* a mutant of PyFloorDiv: division truncating toward zero
TruncDiv(a, b) == (IF (a < 0) = (b < 0) THEN 1 ELSE -1) * (Abs(a) \div Abs(b))

\* Python's a // b on ints, b # 0: the floor of the quotient
PyFloorDiv(a, b) == IF b > 0 THEN a \div b ELSE (-a) \div (-b)

\* Python's a % b on ints, b # 0: the remainder has the sign of b
PyMod(a, b) == IF b > 0 THEN a % b ELSE -((-a) % (-b))

\* int(math.sqrt(n)) for n >= 0: the floor of the square root
IntSqrt(n) == CHOOSE s \in 0..n : s * s <= n /\ (s + 1) * (s + 1) > n

\* math.gcd(a, b): the greatest common divisor of |a| and |b|, 0 for (0, 0)
MathGcd(a, b) ==
    IF a = 0 /\ b = 0 THEN 0
    ELSE CHOOSE g \in 1..(Abs(a) + Abs(b)) :
            /\ a % g = 0 /\ b % g = 0
            /\ \A h \in (g + 1)..(Abs(a) + Abs(b)) : ~(a % h = 0 /\ b % h = 0)

(* ---------------------- math_utils.number_theory ----------------------- *)

\* a mutant of IsPrimeStop: the square root itself is not tried
IsPrimeStopShort(n) == IntSqrt(n)

\* the exclusive end of range(3, int(math.sqrt(n)) + 1, 2)
IsPrimeStop(n) == IntSqrt(n) + 1

\* for i in range(i, stop, 2): if n % i == 0: return False; after it: return True
RECURSIVE IsPrimeLoop(_, _, _)
IsPrimeLoop(n, i, stop) ==
    IF i >= stop THEN TRUE
    ELSE IF PyMod(n, i) = 0 THEN FALSE
    ELSE IsPrimeLoop(n, i + 2, stop)

is_prime(n) ==
    IF n < 2 THEN Raise("ValueError")
    ELSE IF n = 2 THEN Return(TRUE)
    ELSE IF PyMod(n, 2) = 0 THEN Return(FALSE)
    ELSE Return(IsPrimeLoop(n, 3, IsPrimeStop(n)))


\* a mutant of StrikeRange: striking starts one multiple too late
StrikeRangeLate(i, limit) == {j \in (i * i + i)..limit : PyMod(j - i * i, i) = 0}

\* the indices of range(i * i, limit + 1, i)
StrikeRange(i, limit) == {j \in (i * i)..limit : PyMod(j - i * i, i) = 0}

\* for j in range(i * i, limit + 1, i): sieve[j] = False
Strike(sieve, i, limit) ==
    [j \in 0..limit |-> IF j \in StrikeRange(i, limit) THEN FALSE ELSE sieve[j]]

\* for i in range(i, stop): if sieve[i]: strike the multiples of i
RECURSIVE SieveLoop(_, _, _, _)
SieveLoop(sieve, i, stop, limit) ==
    IF i >= stop THEN sieve
    ELSE SieveLoop(IF sieve[i] THEN Strike(sieve, i, limit) ELSE sieve,
                   i + 1, stop, limit)

\* [i for i in range(i, limit + 1) if sieve[i]]
RECURSIVE SieveCollect(_, _, _)
SieveCollect(sieve, i, limit) ==
    IF i > limit THEN <<>>
    ELSE (IF sieve[i] THEN <<i>> ELSE <<>>) \o SieveCollect(sieve, i + 1, limit)

generate_primes(limit) ==
    IF limit < 2 THEN Raise("ValueError")
    ELSE LET sieve0 == [j \in 0..limit |-> j \notin {0, 1}]
             sieve  == SieveLoop(sieve0, 2, IntSqrt(limit) + 1, limit)
         IN  Return(SieveCollect(sieve, 2, limit))

\* a mutant of FactorLoopRuns: the outer loop stops before d * d reaches n
FactorLoopRunsStrict(d, n) == d * d < n

\* the condition of `while d * d <= n`
FactorLoopRuns(d, n) == d * d <= n

\* while d * d <= n: (while n % d == 0: factors.append(d); n //= d); d += 1
\* followed by: if n > 1: factors.append(n)
RECURSIVE FactorLoop(_, _, _)
FactorLoop(n, d, factors) ==
    IF FactorLoopRuns(d, n)
    THEN IF PyMod(n, d) = 0
         THEN FactorLoop(PyFloorDiv(n, d), d, Append(factors, d))
         ELSE FactorLoop(n, d + 1, factors)
    ELSE IF n > 1 THEN Append(factors, n) ELSE factors

prime_factors(n) ==
    IF n < 1 THEN Raise("ValueError")
    ELSE IF n = 1 THEN Return(<<>>)
    ELSE Return(FactorLoop(n, 2, <<>>))

\* if b == 0: return a, 1, 0; else recurse on (b, a % b) and back-substitute
RECURSIVE extended_gcd(_, _)
extended_gcd(a, b) ==
    IF b = 0 THEN <<a, 1, 0>>
    ELSE LET r  == extended_gcd(b, PyMod(a, b))
             x1 == r[2]
             y1 == r[3]
         IN  <<r[1], y1, x1 - PyFloorDiv(a, b) * y1>>

\* a mutant of BaseCase: the recursion is taken to end at b == 1
BaseCaseAtOne(b) == b = 1

\* if b == 0
BaseCase(b) == b = 0

\* a % b: ZeroDivisionError when b is 0
ModOutcome(a, b) ==
    IF b = 0 THEN Raise("ZeroDivisionError") ELSE Return(PyMod(a, b))

\* an activation of extended_gcd(a, b) on the call stack: at its start, or
\* waiting for the call it made
Frame(a, b, pc) == [a |-> a, b |-> b, pc |-> pc]

(* ----- math_utils.number_theory: Fibonacci, divisor sums, n-ary gcd ----- *)

\* for i in range(2, n): sequence.append(sequence[i - 1] + sequence[i - 2])
RECURSIVE FibSeqLoop(_, _, _)
FibSeqLoop(sequence, i, n) ==
    IF i >= n THEN sequence
    ELSE \* Python's sequence[k] is sequence[k + 1] here
         FibSeqLoop(Append(sequence, sequence[(i - 1) + 1] + sequence[(i - 2) + 1]),
                    i + 1, n)

fibonacci_sequence(n) ==
    IF n < 0 THEN Raise("ValueError")
    ELSE IF n = 0 THEN Return(<<>>)
    ELSE IF n = 1 THEN Return(<<0>>)
    ELSE Return(FibSeqLoop(<<0, 1>>, 2, n))

(* Python ints are unbounded and math.sqrt works on IEEE doubles, whose
   DoubleBits significant bits stop being enough for is_fibonacci well before
   the ints do.  An unbounded natural is the sequence of its limbs to base
   LimbBase, least significant first and without leading zero limbs (0 is
   <<>>); a Python int is a sign and such a magnitude. *)
LimbBase == 2^15

\* significant bits of a Python float
DoubleBits == 53

Limb0(x) == IF x = <<>> THEN 0 ELSE Head(x)

Rest(x) == IF x = <<>> THEN <<>> ELSE Tail(x)

RECURSIVE BigNorm(_)
BigNorm(x) ==
    IF x = <<>> THEN <<>>
    ELSE IF x[Len(x)] = 0 THEN BigNorm(SubSeq(x, 1, Len(x) - 1))
    ELSE x

RECURSIVE BigFromNat(_)
BigFromNat(i) ==
    IF i = 0 THEN <<>> ELSE <<i % LimbBase>> \o BigFromNat(i \div LimbBase)

PyInt(i) == [neg |-> i < 0, mag |-> BigFromNat(Abs(i))]

RECURSIVE BigAddCarry(_, _, _)
BigAddCarry(a, b, c) ==
    IF a = <<>> /\ b = <<>> THEN BigFromNat(c)
    ELSE LET s == Limb0(a) + Limb0(b) + c IN
         <<s % LimbBase>> \o BigAddCarry(Rest(a), Rest(b), s \div LimbBase)

BigAdd(a, b) == BigAddCarry(a, b, 0)

\* a - b for a >= b
RECURSIVE BigSubBorrow(_, _, _)
BigSubBorrow(a, b, c) ==
    IF a = <<>> THEN <<>>
    ELSE LET d == Head(a) - Limb0(b) - c IN
         <<IF d < 0 THEN d + LimbBase ELSE d>>
             \o BigSubBorrow(Tail(a), Rest(b), IF d < 0 THEN 1 ELSE 0)

BigSub(a, b) == BigNorm(BigSubBorrow(a, b, 0))

RECURSIVE BigMulSmallCarry(_, _, _)
BigMulSmallCarry(a, m, c) ==
    IF a = <<>> THEN BigFromNat(c)
    ELSE LET p == Head(a) * m + c IN
         <<p % LimbBase>> \o BigMulSmallCarry(Tail(a), m, p \div LimbBase)

\* a * m for 0 <= m < LimbBase
BigMulSmall(a, m) == IF m = 0 THEN <<>> ELSE BigMulSmallCarry(a, m, 0)

BigTimesBase(a) == IF a = <<>> THEN <<>> ELSE <<0>> \o a

RECURSIVE BigMul(_, _)
BigMul(a, b) ==
    IF b = <<>> THEN <<>>
    ELSE BigAdd(BigMulSmall(a, Head(b)), BigTimesBase(BigMul(a, Tail(b))))

RECURSIVE BigLtFrom(_, _, _)
BigLtFrom(a, b, i) ==
    IF i = 0 THEN FALSE
    ELSE IF a[i] # b[i] THEN a[i] < b[i]
    ELSE BigLtFrom(a, b, i - 1)

BigLt(a, b) ==
    IF Len(a) # Len(b) THEN Len(a) < Len(b) ELSE BigLtFrom(a, b, Len(a))

BigIsOdd(a) == a # <<>> /\ a[1] % 2 = 1

\* the bits of a limb
LimbBits == CHOOSE w \in 1..30 : 2^w = LimbBase

RECURSIVE BigDivSmallFrom(_, _, _, _)
BigDivSmallFrom(a, d, i, rem) ==
    IF i = 0 THEN <<>>
    ELSE LET cur == rem * LimbBase + a[i] IN
         BigDivSmallFrom(a, d, i - 1, cur % d) \o <<cur \div d>>

\* a // d for 0 < d < LimbBase
BigDivSmall(a, d) == BigNorm(BigDivSmallFrom(a, d, Len(a), 0))

\* a // 2
BigHalf(a) == BigDivSmall(a, 2)

\* a * 2^k
Shl(a, k) ==
    IF a = <<>> THEN <<>>
    ELSE [i \in 1..(k \div LimbBits) |-> 0] \o BigMulSmall(a, 2^(k % LimbBits))

\* a // 2^k
Shr(a, k) ==
    IF Len(a) <= k \div LimbBits THEN <<>>
    ELSE BigDivSmall(SubSeq(a, (k \div LimbBits) + 1, Len(a)), 2^(k % LimbBits))

\* a.bit_length()
BitLen(a) ==
    IF a = <<>> THEN 0
    ELSE LimbBits * (Len(a) - 1)
         + (CHOOSE w \in 1..LimbBits : 2^(w - 1) <= a[Len(a)] /\ a[Len(a)] < 2^w)

\* the bits of the root are tried from the highest down
RECURSIVE BigIsqrtLoop(_, _, _)
BigIsqrtLoop(x, r, bit) ==
    IF bit = <<>> THEN r
    ELSE LET c == BigAdd(r, bit) IN
         IF BigLt(x, BigMul(c, c))
         THEN BigIsqrtLoop(x, r, BigHalf(bit))
         ELSE BigIsqrtLoop(x, c, BigHalf(bit))

\* the integer part of the exact square root of x
BigIsqrt(x) == BigIsqrtLoop(x, <<>>, Shl(<<1>>, BitLen(x) \div 2))

\* float(x) of a natural x, always an integer again: x rounded to DoubleBits
\* significant bits, a tie going to the even neighbour
ToDouble(x) ==
    IF BitLen(x) <= DoubleBits THEN x
    ELSE LET sh   == BitLen(x) - DoubleBits
             q    == Shr(x, sh)
             rem  == BigSub(x, Shl(q, sh))
             half == Shl(<<1>>, sh - 1)
             up   == BigLt(half, rem) \/ (rem = half /\ BigIsOdd(q))
         IN  Shl(IF up THEN BigAdd(q, <<1>>) ELSE q, sh)

\* int(sqrt(f)) for a double f of integer value: the square root is rounded
\* to the nearest double (it is never a tie), then truncated
IntOfDoubleSqrt(f) ==
    IF f = <<>> THEN <<>>
    ELSE LET e == (BitLen(f) - 1) \div 2      \* 2^e <= sqrt(f) < 2^(e + 1)
             t == (DoubleBits - 1) - e        \* one ulp of the root is 2^(-t)
         IN
         IF t >= 0
         THEN LET scaled == Shl(f, 2 * t)
                  k      == BigIsqrt(scaled)
                  up     == BigLt(BigAdd(BigMul(k, k), k), scaled)
              IN  Shr(IF up THEN BigAdd(k, <<1>>) ELSE k, t)
         ELSE LET u  == -t
                  k  == BigIsqrt(Shr(f, 2 * u))
                  up == BigLt(BigAdd(Shl(BigAdd(BigMul(k, k), k), 2 * u),
                                     Shl(<<1>>, 2 * (u - 1))),
                              f)
              IN  Shl(IF up THEN BigAdd(k, <<1>>) ELSE k, u)

\* int(math.sqrt(x)) for an int x >= 0
IntOfMathSqrt(x) == IntOfDoubleSqrt(ToDouble(x))

\* the nested is_perfect_square(x): s = int(math.sqrt(x)); return s * s == x
is_perfect_square(x) == LET s == IntOfMathSqrt(x) IN BigMul(s, s) = x

\* 5 * n * n for the magnitude of n
FiveNSquared(mag) == BigMulSmall(BigMul(mag, mag), 5)

\* is_perfect_square(5 * n * n + 4) or is_perfect_square(5 * n * n - 4), n >= 1
FibonacciTest(n) ==
    \/ is_perfect_square(BigAdd(FiveNSquared(n.mag), <<4>>))
    \/ is_perfect_square(BigSub(FiveNSquared(n.mag), <<4>>))

is_fibonacci(n) ==
    IF n.neg THEN Raise("ValueError")
    ELSE IF n.mag = <<>> THEN Return(TRUE)
    ELSE Return(FibonacciTest(n))

\* a mutant of CoDivisor: the co-divisor is added even when it equals i
CoDivisorAlways(i, n) == PyFloorDiv(n, i)

\* what `if i != n // i: divisor_sum += n // i` adds for a divisor i of n
CoDivisor(i, n) == IF i # PyFloorDiv(n, i) THEN PyFloorDiv(n, i) ELSE 0

\* for i in range(i, stop): if n % i == 0: divisor_sum += i (+ n // i)
RECURSIVE DivisorSumLoop(_, _, _, _)
DivisorSumLoop(n, i, stop, divisor_sum) ==
    IF i >= stop THEN divisor_sum
    ELSE DivisorSumLoop(n, i + 1, stop,
                        IF PyMod(n, i) = 0
                        THEN divisor_sum + i + CoDivisor(i, n)
                        ELSE divisor_sum)

\* divisor_sum after the loop of is_perfect_number / is_abundant_number, n >= 2
DivisorSum(n) == DivisorSumLoop(n, 2, IntSqrt(n) + 1, 1)

is_perfect_number(n) ==
    IF n < 1 THEN Raise("ValueError")
    ELSE IF n = 1 THEN Return(FALSE)
    ELSE Return(DivisorSum(n) = n)

is_abundant_number(n) ==
    IF n < 1 THEN Raise("ValueError")
    ELSE IF n = 1 THEN Return(FALSE)
    ELSE Return(DivisorSum(n) > n)

\* a mutant of GcdFoldBreaks: the test of the early exit is inverted
GcdFoldBreaksInverted(res) == res # 1

\* if result == 1: break (res is the code's result)
GcdFoldBreaks(res) == res = 1

\* for num in numbers[1:]: result = math.gcd(result, abs(num)); early exit
RECURSIVE GcdFold(_, _)
GcdFold(rest, res) ==
    IF rest = <<>> THEN res
    ELSE LET r == MathGcd(res, Abs(Head(rest))) IN
         IF GcdFoldBreaks(r) THEN r ELSE GcdFold(Tail(rest), r)

gcd_multiple(numbers) ==
    IF numbers = <<>> THEN Raise("ValueError")
    ELSE Return(GcdFold(Tail(numbers), Abs(Head(numbers))))

\* a mutant of HasZero: only the first argument is tested
HasZeroFirst(numbers) == numbers[1] = 0

\* for num in numbers: if num == 0: raise ValueError
HasZero(numbers) == \E i \in DOMAIN numbers : numbers[i] = 0

\* for num in numbers[1:]: result = abs(result * num) // math.gcd(result, abs(num))
RECURSIVE LcmFold(_, _)
LcmFold(rest, res) ==
    IF rest = <<>> THEN Return(res)
    ELSE LET g == MathGcd(res, Abs(Head(rest))) IN
         IF g = 0 THEN Raise("ZeroDivisionError")
         ELSE LcmFold(Tail(rest), PyFloorDiv(Abs(res * Head(rest)), g))

lcm_multiple(numbers) ==
    IF numbers = <<>> THEN Raise("ValueError")
    ELSE IF HasZero(numbers) THEN Raise("ValueError")
    ELSE LcmFold(Tail(numbers), Abs(Head(numbers)))

(* ------- gcd and lcm of arithmetic, math_operations, math_utils.py ------ *)

\* a, b = abs(a), abs(b) has been done; while b: a, b = b, a % b; return a
RECURSIVE EuclidLoop(_, _)
EuclidLoop(a, b) == IF b = 0 THEN a ELSE EuclidLoop(b, PyMod(a, b))

\* a mutant of LcmValue: the product is not made non-negative
LcmValueNoAbs(a, b, g) == PyFloorDiv(a * b, g)

\* abs(a * b) // gcd(a, b), the return expression of every lcm; g is gcd(a, b)
LcmValue(a, b, g) == PyFloorDiv(Abs(a * b), g)

\* math_utils.arithmetic.gcd
arith_gcd(a, b) == Return(MathGcd(a, b))

\* math_utils.arithmetic.lcm
arith_lcm(a, b) ==
    IF a = 0 \/ b = 0 THEN Raise("ValueError")
    ELSE Return(LcmValue(a, b, arith_gcd(a, b).val))

\* math_operations.gcd
mo_gcd(a, b) == Return(EuclidLoop(Abs(a), Abs(b)))

\* math_operations.lcm
mo_lcm(a, b) ==
    IF a = 0 \/ b = 0 THEN Raise("ValueError")
    ELSE Return(LcmValue(a, b, mo_gcd(a, b).val))

\* gcd of src/math_utils.py
mu_gcd(a, b) == Return(EuclidLoop(Abs(a), Abs(b)))

\* lcm of src/math_utils.py: only the pair (0, 0) is rejected
mu_lcm(a, b) ==
    IF a = 0 /\ b = 0 THEN Raise("ValueError")
    ELSE Return(LcmValue(a, b, mu_gcd(a, b).val))

\* the three modules that define a gcd / lcm pair
Modules == {"math_utils.arithmetic", "math_operations", "math_utils.py"}

gcd_of(m, a, b) ==
    CASE m = "math_utils.arithmetic" -> arith_gcd(a, b)
      [] m = "math_operations"       -> mo_gcd(a, b)
      [] m = "math_utils.py"         -> mu_gcd(a, b)

lcm_of(m, a, b) ==
    CASE m = "math_utils.arithmetic" -> arith_lcm(a, b)
      [] m = "math_operations"       -> mo_lcm(a, b)
      [] m = "math_utils.py"         -> mu_lcm(a, b)

(* -------------------- floats, as exact rationals ----------------------- *)

RECURSIVE RatGcd(_, _)
RatGcd(a, b) == IF b = 0 THEN a ELSE RatGcd(b, a % b)

\* the rational n / d, d # 0, in lowest terms with a positive denominator
Rat(n, d) ==
    LET sn == IF d < 0 THEN -n ELSE n
        sd == Abs(d)
        g  == RatGcd(Abs(sn), sd)
    IN  [num |-> sn \div g, den |-> sd \div g]

\* float(x) of an int x
FromInt(x) == [num |-> x, den |-> 1]

RatAdd(p, q) == Rat(p.num * q.den + q.num * p.den, p.den * q.den)

RatSub(p, q) == Rat(p.num * q.den - q.num * p.den, p.den * q.den)

RatMul(p, q) == Rat(p.num * q.num, p.den * q.den)

RatLt(p, q) == p.num * q.den < q.num * p.den

RatLe(p, q) == p.num * q.den <= q.num * p.den

\* math.floor and math.ceil
Floor(p) == p.num \div p.den

Ceil(p) == -((-p.num) \div p.den)

(* ----------------------- math_utils.statistics ------------------------- *)

\* s[i] for a Python list s and an int i: a negative i counts from the end,
\* and a position outside -len(s)..len(s)-1 raises IndexError
InRange(s, i) == -Len(s) <= i /\ i < Len(s)

Item(s, i) == IF i >= 0 THEN s[i + 1] ELSE s[Len(s) + i + 1]

\* s[lo:hi] for 0 <= lo, hi
Slice(s, lo, hi) ==
    IF lo >= Len(s) \/ hi <= lo THEN <<>>
    ELSE SubSeq(s, lo + 1, IF hi > Len(s) THEN Len(s) ELSE hi)

RECURSIVE Insert(_, _)
Insert(x, s) ==
    IF s = <<>> THEN <<x>>
    ELSE IF x < Head(s) THEN <<x>> \o s
    ELSE <<Head(s)>> \o Insert(x, Tail(s))

\* a mutant of sorted: the values are left in input order
unsorted(values) == values

\* the builtin sorted(values) on a list of ints: a new ascending list
RECURSIVE sorted(_)
sorted(values) ==
    IF values = <<>> THEN <<>>
    ELSE Insert(values[Len(values)], sorted(SubSeq(values, 1, Len(values) - 1)))

median(values) ==
    IF values = <<>> THEN Raise("ValueError")
    ELSE LET sorted_values == sorted(values)
             n == Len(sorted_values)
         IN  IF PyMod(n, 2) = 0
             THEN LET mid1 == Item(sorted_values, PyFloorDiv(n, 2) - 1)
                      mid2 == Item(sorted_values, PyFloorDiv(n, 2))
                  IN  Return(Rat(mid1 + mid2, 2))
             ELSE Return(FromInt(Item(sorted_values, PyFloorDiv(n, 2))))

\* lower_half: sorted_values[: n // 2] for even and for odd n
LowerHalf(sorted_values) ==
    Slice(sorted_values, 0, PyFloorDiv(Len(sorted_values), 2))

\* a mutant of UpperHalf: the central element of an odd-length list is kept
UpperHalfWithCentre(sorted_values) ==
    LET n == Len(sorted_values) IN Slice(sorted_values, PyFloorDiv(n, 2), n)

\* upper_half: sorted_values[n // 2 :] for even n, [n // 2 + 1 :] for odd n
UpperHalf(sorted_values) ==
    LET n == Len(sorted_values) IN
    IF PyMod(n, 2) = 0
    THEN Slice(sorted_values, PyFloorDiv(n, 2), n)
    ELSE Slice(sorted_values, PyFloorDiv(n, 2) + 1, n)

\* a mutant of TooFewForQuartiles: two elements are taken as enough
TooFewForQuartilesLax(values) == Len(values) < 2

\* len(values) < 3
TooFewForQuartiles(values) == Len(values) < 3

quartiles(values) ==
    IF values = <<>> THEN Raise("ValueError")
    ELSE IF TooFewForQuartiles(values) THEN Raise("ValueError")
    ELSE LET sorted_values == sorted(values)
             q2 == median(sorted_values)
             q1 == median(LowerHalf(sorted_values))
             q3 == median(UpperHalf(sorted_values))
         IN  IF q2.raised # "" THEN q2
             ELSE IF q1.raised # "" THEN q1
             ELSE IF q3.raised # "" THEN q3
             ELSE Return(<<q1.val, q2.val, q3.val>>)

interquartile_range(values) ==
    LET q == quartiles(values) IN
    IF q.raised # "" THEN q
    ELSE Return(RatSub(q.val[3], q.val[1]))

\* a mutant of IsOutlier: a value equal to a bound is flagged too
IsOutlierInclusive(x, lower_bound, upper_bound) ==
    RatLe(FromInt(x), lower_bound) \/ RatLe(upper_bound, FromInt(x))

\* x < lower_bound or x > upper_bound
IsOutlier(x, lower_bound, upper_bound) ==
    RatLt(FromInt(x), lower_bound) \/ RatLt(upper_bound, FromInt(x))

\* [x for x in values if x < lower_bound or x > upper_bound]
RECURSIVE OutlierList(_, _, _)
OutlierList(values, lower_bound, upper_bound) ==
    IF values = <<>> THEN <<>>
    ELSE (IF IsOutlier(Head(values), lower_bound, upper_bound)
          THEN <<Head(values)>> ELSE <<>>)
         \o OutlierList(Tail(values), lower_bound, upper_bound)

detect_outliers_iqr(values, multiplier) ==
    IF values = <<>> THEN Return(<<>>)
    ELSE LET q == quartiles(values) IN
         IF q.raised # "" THEN q
         ELSE LET q1 == q.val[1]
                  q3 == q.val[3]
                  iqr == RatSub(q3, q1)
                  lower_bound == RatSub(q1, RatMul(multiplier, iqr))
                  upper_bound == RatAdd(q3, RatMul(multiplier, iqr))
              IN  Return(OutlierList(values, lower_bound, upper_bound))

\* a mutant of PercentileIndex: the rank is scaled by n instead of n - 1
PercentileIndexByN(p, n) == Rat(p * n, 100)

\* index = (p / 100) * (n - 1)
PercentileIndex(p, n) == Rat(p * (n - 1), 100)

percentile(values, p) ==
    IF ~(0 <= p /\ p <= 100) THEN Raise("ValueError")
    ELSE IF values = <<>> THEN Raise("ValueError")
    ELSE LET sorted_values == sorted(values)
             n == Len(sorted_values)
             index == PercentileIndex(p, n)
             lower_index == Floor(index)
             upper_index == Ceil(index)
             weight == RatSub(index, FromInt(lower_index))
         IN  IF p = 0 THEN Return(FromInt(Item(sorted_values, 0)))
             ELSE IF p = 100 THEN Return(FromInt(Item(sorted_values, -1)))
             ELSE IF index.den = 1
             THEN IF InRange(sorted_values, index.num)
                  THEN Return(FromInt(Item(sorted_values, index.num)))
                  ELSE Raise("IndexError")
             ELSE IF ~InRange(sorted_values, lower_index) THEN Raise("IndexError")
             ELSE IF ~InRange(sorted_values, upper_index) THEN Raise("IndexError")
             ELSE LET lower_value == Item(sorted_values, lower_index)
                      upper_value == Item(sorted_values, upper_index)
                  IN  Return(RatAdd(FromInt(lower_value),
                                    RatMul(weight, FromInt(upper_value - lower_value))))

(* ------ math_utils.statistics: mean, mode, dispersion, Z-scores -------- *)

RatDiv(p, q) == Rat(p.num * q.den, p.den * q.num)

\* the builtin sum of a list of ints
RECURSIVE Sum(_)
Sum(values) == IF values = <<>> THEN 0 ELSE Head(values) + Sum(Tail(values))

\* the builtin sum of a list of floats
RECURSIVE RatSum(_)
RatSum(terms) ==
    IF terms = <<>> THEN FromInt(0) ELSE RatAdd(Head(terms), RatSum(Tail(terms)))

mean(values) ==
    IF values = <<>> THEN Raise("ValueError")
    ELSE Return(Rat(Sum(values), Len(values)))

\* the keys of Counter(values): the distinct values in first-seen order
RECURSIVE CounterKeys(_)
CounterKeys(values) ==
    IF values = <<>> THEN <<>>
    ELSE LET front == SubSeq(values, 1, Len(values) - 1)
             last  == values[Len(values)]
         IN  IF \E i \in DOMAIN front : front[i] = last
             THEN CounterKeys(front)
             ELSE Append(CounterKeys(front), last)

\* Counter(values)[value]
Count(values, value) == Cardinality({i \in DOMAIN values : values[i] = value})

mode(values) ==
    IF values = <<>> THEN Raise("ValueError")
    ELSE LET keys == CounterKeys(values)
             max_count == CHOOSE c \in {Count(values, keys[k]) : k \in DOMAIN keys} :
                              \A k \in DOMAIN keys : Count(values, keys[k]) <= c
             IsMode(value) == Count(values, value) = max_count
         IN  Return(SelectSeq(keys, IsMode))

\* a mutant of TooFewForSample: a single data point is let through
TooFewForSampleLax(values, population) == ~population /\ Len(values) < 1

\* not population and len(values) < 2
TooFewForSample(values, population) == ~population /\ Len(values) < 2

\* [(x - data_mean) ** 2 for x in values]
squared_deviations(values, data_mean) ==
    [i \in DOMAIN values |->
        LET d == RatSub(FromInt(values[i]), data_mean) IN RatMul(d, d)]

variance(values, population) ==
    IF values = <<>> THEN Raise("ValueError")
    ELSE IF TooFewForSample(values, population) THEN Raise("ValueError")
    ELSE LET data_mean == mean(values).val
             divisor == IF population THEN Len(values) ELSE Len(values) - 1
         IN  IF divisor = 0 THEN Raise("ZeroDivisionError")
             ELSE Return(RatDiv(RatSum(squared_deviations(values, data_mean)),
                                FromInt(divisor)))

\* math.sqrt(v) of a float v >= 0: the non-negative number whose square is v
Sqrt(v) == [square |-> v]

standard_deviation(values, population) ==
    LET v == variance(values, population) IN
    IF v.raised # "" THEN v ELSE Return(Sqrt(v.val))

data_range(values) ==
    IF values = <<>> THEN Raise("ValueError")
    ELSE LET max == CHOOSE x \in {values[i] : i \in DOMAIN values} :
                        \A i \in DOMAIN values : values[i] <= x
             min == CHOOSE x \in {values[i] : i \in DOMAIN values} :
                        \A i \in DOMAIN values : x <= values[i]
         IN  Return(max - min)

\* a mutant of ZScoreExceeds: a Z-score equal to the threshold is flagged too
ZScoreReaches(value, data_mean, data_std, threshold) ==
    LET d == RatSub(FromInt(value), data_mean) IN
    \/ RatLe(threshold, FromInt(0))
    \/ RatLe(RatMul(RatMul(threshold, threshold), data_std.square), RatMul(d, d))

\* abs((value - data_mean) / data_std) > threshold, for data_std > 0: both
\* sides are compared by their squares when the threshold is not negative
ZScoreExceeds(value, data_mean, data_std, threshold) ==
    LET d == RatSub(FromInt(value), data_mean) IN
    \/ RatLt(threshold, FromInt(0))
    \/ RatLt(RatMul(RatMul(threshold, threshold), data_std.square), RatMul(d, d))

\* for value in values: if z_score > threshold: outliers.append(value)
RECURSIVE ZScoreList(_, _, _, _)
ZScoreList(values, data_mean, data_std, threshold) ==
    IF values = <<>> THEN <<>>
    ELSE (IF ZScoreExceeds(Head(values), data_mean, data_std, threshold)
          THEN <<Head(values)>> ELSE <<>>)
         \o ZScoreList(Tail(values), data_mean, data_std, threshold)

detect_outliers_zscore(values, threshold) ==
    IF values = <<>> THEN Return(<<>>)
    ELSE IF Len(values) < 2 THEN Return(<<>>)
    ELSE LET m == mean(values)
             sd == standard_deviation(values, FALSE)
         IN  IF m.raised # "" THEN m
             ELSE IF sd.raised # "" THEN sd
             ELSE IF sd.val.square.num = 0 THEN Return(<<>>)
             ELSE Return(ZScoreList(values, m.val, sd.val, threshold))

\* a mutant of NotIn: the test is inverted, the outliers are what is kept
RECURSIVE OnlyIn(_, _)
OnlyIn(values, outliers) ==
    IF values = <<>> THEN <<>>
    ELSE (IF \E k \in DOMAIN outliers : outliers[k] = Head(values)
          THEN <<Head(values)>> ELSE <<>>)
         \o OnlyIn(Tail(values), outliers)

\* a mutant of NotIn: only the first occurrence of an outlier is left out
RECURSIVE NotInOnce(_, _)
NotInOnce(values, outliers) ==
    IF values = <<>> THEN <<>>
    ELSE IF \E k \in DOMAIN outliers : outliers[k] = Head(values)
         THEN LET v == Head(values)
                  Other(x) == x # v
              IN  NotInOnce(Tail(values), SelectSeq(outliers, Other))
         ELSE <<Head(values)>> \o NotInOnce(Tail(values), outliers)

\* [x for x in values if x not in outliers]
RECURSIVE NotIn(_, _)
NotIn(values, outliers) ==
    IF values = <<>> THEN <<>>
    ELSE (IF \E k \in DOMAIN outliers : outliers[k] = Head(values)
          THEN <<>> ELSE <<Head(values)>>)
         \o NotIn(Tail(values), outliers)

remove_outliers_iqr(values, multiplier) ==
    IF values = <<>> THEN Return(<<>>)
    ELSE LET outliers == detect_outliers_iqr(values, multiplier) IN
         IF outliers.raised # "" THEN outliers
         ELSE Return(NotIn(values, outliers.val))

(* -------- math_utils.statistics: the list objects of a call ------------ *)

(* The list objects alive during a call are a sequence of their contents;   *)
(* an object is named by its position.  Each operator below gives the       *)
(* objects after the statements of one function have run on the objects     *)
(* `store`, the argument being the object `data`.                           *)

\* a list object is created; it is the last one of the result
NewList(store, content) == Append(store, content)

\* a mutant of CopyList: the copy is filled by taking the elements out of
\* the source
CopyListDraining(store, id) == Append([store EXCEPT ![id] = <<>>], store[id])

\* list(data): a new list with the elements of the object id
CopyList(store, id) == NewList(store, store[id])

\* sorted(values): a new list
SortedList(store, id) == NewList(store, sorted(store[id]))

\* outliers.append(value): the object id is changed in place
AppendTo(store, id, value) == [store EXCEPT ![id] = Append(@, value)]

\* the objects of median once values = list(data) is the object `values`:
\* sorted_values = sorted(values) unless values is empty
median_of_values(store, values) ==
    IF store[values] = <<>> THEN store ELSE SortedList(store, values)

\* values = list(data); sorted_values = sorted(values)
median_lists(store, data) ==
    median_of_values(CopyList(store, data), Len(store) + 1)

\* a new list with this content, and the objects of median on it
median_of_new(store, content) ==
    median_lists(NewList(store, content), Len(store) + 1)

\* the last object is lower_half: the objects of median(lower_half), then
\* upper_half and the objects of median(upper_half)
quartiles_of_lower(store, sorted_values) ==
    IF median(store[Len(store)]).raised # ""
    THEN median_lists(store, Len(store))
    ELSE median_of_new(median_lists(store, Len(store)),
                       UpperHalf(store[sorted_values]))

\* the last object is sorted_values: the objects of median(sorted_values),
\* then lower_half and what follows it
quartiles_of_sorted(store, sorted_values) ==
    IF median(store[sorted_values]).raised # ""
    THEN median_lists(store, sorted_values)
    ELSE quartiles_of_lower(NewList(median_lists(store, sorted_values),
                                    LowerHalf(store[sorted_values])),
                            sorted_values)

\* the objects of quartiles once values = list(data) is the object `values`
quartiles_of_values(store, values) ==
    IF store[values] = <<>> \/ TooFewForQuartiles(store[values]) THEN store
    ELSE quartiles_of_sorted(SortedList(store, values), Len(store) + 1)

\* values, sorted_values, the objects of median(sorted_values), lower_half,
\* the objects of median(lower_half), upper_half, those of median(upper_half)
quartiles_lists(store, data) ==
    quartiles_of_values(CopyList(store, data), Len(store) + 1)

\* nothing is created when p is refused; else values and sorted_values
percentile_lists(store, data, p) ==
    IF ~(0 <= p /\ p <= 100) THEN store
    ELSE median_of_values(CopyList(store, data), Len(store) + 1)

\* return outliers: a new list, unless the call raised
returned_list(store, outcome) ==
    IF outcome.raised # "" THEN store ELSE NewList(store, outcome.val)

\* the objects of detect_outliers_iqr once values = list(data) exists
detect_outliers_iqr_of_values(store, values, multiplier) ==
    IF store[values] = <<>> THEN NewList(store, <<>>)
    ELSE returned_list(quartiles_lists(store, values),
                       detect_outliers_iqr(store[values], multiplier))

\* values, the objects of quartiles(values), and the list returned
detect_outliers_iqr_lists(store, data, multiplier) ==
    detect_outliers_iqr_of_values(CopyList(store, data), Len(store) + 1,
                                  multiplier)

\* values = list(data)
mean_lists(store, data) == CopyList(store, data)

\* the objects of variance once values = list(data) exists
variance_of_values(store, values, population) ==
    IF store[values] = <<>> \/ TooFewForSample(store[values], population)
    THEN store
    ELSE NewList(mean_lists(store, values),
                 squared_deviations(store[values], mean(store[values]).val))

\* values, the object of mean(values), squared_deviations
variance_lists(store, data, population) ==
    variance_of_values(CopyList(store, data), Len(store) + 1, population)

\* standard_deviation hands data on to variance
standard_deviation_lists(store, data, population) ==
    variance_lists(store, data, population)

\* for value in values: if z_score > threshold: outliers.append(value)
RECURSIVE ZScoreAppends(_, _, _, _, _, _)
ZScoreAppends(store, outliers, rest, data_mean, data_std, threshold) ==
    IF rest = <<>> THEN store
    ELSE ZScoreAppends(
             IF ZScoreExceeds(Head(rest), data_mean, data_std, threshold)
             THEN AppendTo(store, outliers, Head(rest)) ELSE store,
             outliers, Tail(rest), data_mean, data_std, threshold)

\* the last object is outliers = []: it is returned as it is when data_std
\* is 0, and appended to otherwise
zscore_outliers_list(store, values, data_mean, data_std, threshold) ==
    IF data_std.square.num = 0 THEN store
    ELSE ZScoreAppends(store, Len(store), store[values], data_mean, data_std,
                       threshold)

\* the objects of detect_outliers_zscore after mean(values): those of
\* standard_deviation(values) and the list outliers
zscore_after_mean(store, values, data_mean, data_std, threshold) ==
    IF data_mean.raised # "" THEN store
    ELSE IF data_std.raised # ""
    THEN standard_deviation_lists(store, values, FALSE)
    ELSE zscore_outliers_list(
             NewList(standard_deviation_lists(store, values, FALSE), <<>>),
             values, data_mean.val, data_std.val, threshold)

\* the objects of detect_outliers_zscore once values = list(data) exists
detect_outliers_zscore_of_values(store, values, threshold) ==
    IF store[values] = <<>> \/ Len(store[values]) < 2
    THEN NewList(store, <<>>)
    ELSE zscore_after_mean(mean_lists(store, values), values,
                           mean(store[values]),
                           standard_deviation(store[values], FALSE),
                           threshold)

\* values, the objects of mean(values) and of standard_deviation(values),
\* and the list returned: a new empty list, or outliers, which is appended to
detect_outliers_zscore_lists(store, data, threshold) ==
    detect_outliers_zscore_of_values(CopyList(store, data), Len(store) + 1,
                                     threshold)

\* return [v for v in values if v not in outliers]: a new list, unless
\* detect_outliers_iqr raised
kept_list(store, values, outliers) ==
    IF outliers.raised # "" THEN store
    ELSE NewList(store, NotIn(store[values], outliers.val))

\* the objects of remove_outliers_iqr once values = list(data) exists
remove_outliers_iqr_of_values(store, values, multiplier) ==
    IF store[values] = <<>> THEN NewList(store, <<>>)
    ELSE kept_list(detect_outliers_iqr_lists(store, values, multiplier),
                   values, detect_outliers_iqr(store[values], multiplier))

\* values, the objects of detect_outliers_iqr(values, multiplier), and the
\* list returned
remove_outliers_iqr_lists(store, data, multiplier) ==
    remove_outliers_iqr_of_values(CopyList(store, data), Len(store) + 1,
                                  multiplier)

(* ------------- math_utils.statistics: clean_numeric_data --------------- *)

\* a Python value of any type: its class and its repr
PyValue(type, repr) == [type |-> type, repr |-> repr]

\* isinstance(value, (int, float)): bool is a subclass of int
IsIntOrFloat(value) == value.type \in {"int", "float", "bool"}

\* isinstance(value, bool)
IsBool(value) == value.type = "bool"

\* isinstance(value, float) and math.isnan(value)
IsNaN(value) == value.type = "float" /\ value.repr = "nan"

\* a mutant of CleanKeeps: booleans are not told apart from ints
CleanKeepsBool(value) ==
    /\ value.type # "NoneType" /\ IsIntOrFloat(value)
    /\ ~IsNaN(value)

\* the element is appended to cleaned
CleanKeeps(value) ==
    /\ value.type # "NoneType" /\ IsIntOrFloat(value) /\ ~IsBool(value)
    /\ ~IsNaN(value)

\* for value in data: if ...: cleaned.append(value)
RECURSIVE CleanLoop(_, _)
CleanLoop(data, cleaned) ==
    IF data = <<>> THEN cleaned
    ELSE CleanLoop(Tail(data),
                   IF CleanKeeps(Head(data)) THEN Append(cleaned, Head(data))
                   ELSE cleaned)

clean_numeric_data(data) == Return(CleanLoop(data, <<>>))

(* ------------- math_utils.statistics: is_numeric_iterable -------------- *)

\* isinstance(value, float) and math.isinf(value)
IsInf(value) == value.type = "float" /\ value.repr \in {"inf", "-inf"}

\* the loop over values returns False at this element
NumericRejects(value) ==
    \/ ~IsIntOrFloat(value) \/ IsBool(value)
    \/ IsNaN(value) \/ IsInf(value)

\* for value in values: if ...: return False
RECURSIVE NumericLoop(_)
NumericLoop(values) ==
    IF values = <<>> THEN TRUE
    ELSE IF NumericRejects(Head(values)) THEN FALSE
    ELSE NumericLoop(Tail(values))

is_numeric_iterable(data) ==
    IF data = <<>> THEN Return(TRUE) ELSE Return(NumericLoop(data))

(* ------------------------ math_operations.multiply --------------------- *)

\* the number a value of class int, float or bool stands for
NumberOf(value) ==
    CASE value.repr = "0" -> FromInt(0)
      [] value.repr = "4" -> FromInt(4)
      [] value.repr = "5" -> FromInt(5)
      [] value.repr = "-3" -> FromInt(-3)
      [] value.repr = "2.5" -> Rat(5, 2)
      [] value.repr = "True" -> FromInt(1)
      [] value.repr = "False" -> FromInt(0)

\* a * b for ints, floats and bools: a float if either is one, else an int
PyProduct(a, b) ==
    [type  |-> IF a.type = "float" \/ b.type = "float" THEN "float" ELSE "int",
     value |-> RatMul(NumberOf(a), NumberOf(b))]

multiply(a, b) ==
    IF ~IsIntOrFloat(a) \/ ~IsIntOrFloat(b) THEN Raise("TypeError")
    ELSE Return(PyProduct(a, b))

(* ---------------- number_theory.fibonacci_generator -------------------- *)

\* a mutant of GeneratorContinues: the limit itself is not yielded
GeneratorContinuesStrict(a, limit) == a < limit

\* while a <= limit
GeneratorContinues(a, limit) == a <= limit

\* no generator object
NoGenerator ==
    [pc |-> "absent", limit |-> 0, a |-> 0, b |-> 0, yielded |-> <<>>, raised |-> ""]

\* fibonacci_generator(limit) returns a generator object: none of the body
\* has run, the locals a and b do not exist yet (0 stands for that)
NewGenerator(limit) ==
    [pc |-> "created", limit |-> limit, a |-> 0, b |-> 0, yielded |-> <<>>,
     raised |-> ""]

\* the loop test with the locals a and b: yield a and suspend, or fall off
\* the end of the body (StopIteration)
GeneratorLoop(gen, a, b) ==
    IF GeneratorContinues(a, gen.limit)
    THEN [gen EXCEPT !.pc = "suspended", !.a = a, !.b = b,
                     !.yielded = Append(@, a)]
    ELSE [gen EXCEPT !.pc = "done", !.a = a, !.b = b]

\* a mutant of GeneratorNext: the locals a and b are one cursor shared by all
\* generator objects (that of the first one)
GeneratorNextSharedCursor(gen) ==
    IF gen.pc = "created"
    THEN IF gen.limit < 0
         THEN [gen EXCEPT !.pc = "done", !.raised = "ValueError"]
         ELSE GeneratorLoop(gen, 0, 1)
    ELSE GeneratorLoop(gen, gens[1].b, gens[1].a + gens[1].b)

\* next(gen): from the start of the body to the first yield, or from a yield
\* through a, b = b, a + b to the next one
GeneratorNext(gen) ==
    IF gen.pc = "created"
    THEN IF gen.limit < 0
         THEN [gen EXCEPT !.pc = "done", !.raised = "ValueError"]
         ELSE GeneratorLoop(gen, 0, 1)
    ELSE GeneratorLoop(gen, gen.b, gen.a + gen.b)

(* ------------------------ math_operations.is_prime --------------------- *)

\* a mutant of MoPrimeLoopRuns: the square root itself is not tried
MoPrimeLoopRunsStrict(i, n) == i * i < n

\* while i * i <= n
MoPrimeLoopRuns(i, n) == i * i <= n

\* while i * i <= n: if n % i == 0: return False; i += 2; after it: return True
RECURSIVE MoPrimeLoop(_, _)
MoPrimeLoop(n, i) ==
    IF ~MoPrimeLoopRuns(i, n) THEN TRUE
    ELSE IF PyMod(n, i) = 0 THEN FALSE
    ELSE MoPrimeLoop(n, i + 2)

mo_is_prime(n) ==
    IF n < 2 THEN Return(FALSE)
    ELSE IF n = 2 THEN Return(TRUE)
    ELSE IF PyMod(n, 2) = 0 THEN Return(FALSE)
    ELSE Return(MoPrimeLoop(n, 3))

(* ------------------- Python floats, as IEEE doubles -------------------- *)

\* finite doubles are below 2^MaxExp in absolute value
MaxExp == 2^10

\* the smallest positive double is 2^MinExp
MinExp == 3 - MaxExp - DoubleBits

\* the double (-1)^neg * mag * 2^exp, for a natural mag (a limb sequence)
Double(neg, mag, exp) == [kind |-> "finite", neg |-> neg, mag |-> mag, exp |-> exp]

\* 0.0; the sign of a zero is not kept, -0.0 == 0.0
DZero == Double(FALSE, <<>>, 0)

DInf(neg) == [kind |-> "inf", neg |-> neg, mag |-> <<>>, exp |-> 0]

DNaN == [kind |-> "nan", neg |-> FALSE, mag |-> <<>>, exp |-> 0]

\* the number of zero bits at the low end of a positive natural
TrailingZeros(mag) ==
    LET i == CHOOSE j \in 1..Len(mag) :
                 mag[j] # 0 /\ \A k \in 1..(j - 1) : mag[k] = 0
        w == CHOOSE v \in 0..(LimbBits - 1) :
                 mag[i] % 2^v = 0 /\ mag[i] % 2^(v + 1) # 0
    IN  LimbBits * (i - 1) + w

\* a double is kept with an odd mag, so that equal doubles are equal records
DCanon(neg, mag, exp) ==
    IF mag = <<>> THEN DZero
    ELSE LET tz == TrailingZeros(mag) IN Double(neg, Shr(mag, tz), exp + tz)

Max(a, b) == IF a >= b THEN a ELSE b

\* the double of a mag that has no bit too many: an infinity from 2^MaxExp on
DRounded(neg, mag, exp) ==
    IF BitLen(mag) + exp > MaxExp THEN DInf(neg) ELSE DCanon(neg, mag, exp)

\* q is what is kept of a mag and rem what is cut off, whose half unit is
\* half: q is rounded up above half a unit, and to even at half a unit
DRoundNearest(neg, q, rem, half, exp) ==
    DRounded(neg,
             IF BigLt(half, rem) \/ (rem = half /\ BigIsOdd(q))
             THEN BigAdd(q, <<1>>) ELSE q,
             exp)

\* the low sh bits of mag are cut off, q being the bits kept
DRoundCut(neg, mag, q, exp, sh) ==
    DRoundNearest(neg, q, BigSub(mag, Shl(q, sh)), Shl(<<1>>, sh - 1), exp + sh)

\* mag # 0 is rounded by cutting its low sh bits off
DRoundBy(neg, mag, exp, sh) ==
    IF sh = 0 THEN DRounded(neg, mag, exp)
    ELSE DRoundCut(neg, mag, Shr(mag, sh), exp, sh)

\* the exact value (-1)^neg * mag * 2^exp rounded to the nearest double, a
\* tie going to the even neighbour: DoubleBits significant bits are kept,
\* fewer below the normal range; a result of 2^MaxExp or more is an infinity
DRound(neg, mag, exp) ==
    IF mag = <<>> THEN DZero
    ELSE DRoundBy(neg, mag, exp,
                  Max(Max(BitLen(mag) - DoubleBits, MinExp - exp), 0))

\* float(i) of a small int i
DFromInt(i) == DRound(i < 0, BigFromNat(Abs(i)), 0)

DNeg(x) ==
    IF x.kind = "nan" \/ (x.kind = "finite" /\ x.mag = <<>>) THEN x
    ELSE [x EXCEPT !.neg = ~x.neg]

DAbs(x) == [x EXCEPT !.neg = FALSE]

\* the exponent above the highest bit of a finite x # 0: |x| < 2^TopExp(x)
TopExp(x) == BitLen(x.mag) + x.exp

\* the sum of two finite doubles whose mags mx and my are at the exponent e
DAddAligned(x, y, mx, my, e) ==
    DRound(IF x.neg = y.neg \/ ~BigLt(mx, my) THEN x.neg ELSE y.neg,
           IF x.neg = y.neg THEN BigAdd(mx, my)
           ELSE IF BigLt(mx, my) THEN BigSub(my, mx) ELSE BigSub(mx, my),
           e)

\* the sum of two finite doubles, e being the lower of their exponents
DAddAt(x, y, e) ==
    DAddAligned(x, y, Shl(x.mag, x.exp - e), Shl(y.mag, y.exp - e), e)

\* x + y; an operand below a quarter of the last bit of the other one does
\* not change it
DAdd(x, y) ==
    IF x.kind = "nan" \/ y.kind = "nan" THEN DNaN
    ELSE IF x.kind = "inf" /\ y.kind = "inf"
         THEN (IF x.neg = y.neg THEN x ELSE DNaN)
    ELSE IF x.kind = "inf" THEN x
    ELSE IF y.kind = "inf" THEN y
    ELSE IF x.mag = <<>> THEN y
    ELSE IF y.mag = <<>> THEN x
    ELSE IF TopExp(x) - TopExp(y) > DoubleBits + 3 THEN x
    ELSE IF TopExp(y) - TopExp(x) > DoubleBits + 3 THEN y
    ELSE DAddAt(x, y, IF x.exp <= y.exp THEN x.exp ELSE y.exp)

\* x - y
DSub(x, y) == DAdd(x, DNeg(y))

\* x * y
DMul(x, y) ==
    IF x.kind = "nan" \/ y.kind = "nan" THEN DNaN
    ELSE IF x.kind = "inf" \/ y.kind = "inf"
         THEN (IF x = DZero \/ y = DZero THEN DNaN ELSE DInf(x.neg # y.neg))
    ELSE DRound(x.neg # y.neg, BigMul(x.mag, y.mag), x.exp + y.exp)

\* the largest g below LimbBase with d * g <= cur, whose bits are tried from
\* the highest down
RECURSIVE QuotientLimb(_, _, _, _)
QuotientLimb(cur, d, g, bit) ==
    IF bit = 0 THEN g
    ELSE IF BigLt(cur, BigMulSmall(d, g + bit))
         THEN QuotientLimb(cur, d, g, bit \div 2)
         ELSE QuotientLimb(cur, d, g + bit, bit \div 2)

\* the limb g of the quotient is put below the limbs found for the rest
QuotientWith(rest, g) == <<rest[1] \o <<g>>, rest[2]>>

RECURSIVE BigDivModFrom(_, _, _, _)

\* g is the limb of the quotient that cur gives: the limbs below it come
\* from what cur leaves
BigDivModBelow(n, d, i, cur, g) ==
    QuotientWith(BigDivModFrom(n, d, i - 1, BigSub(cur, BigMulSmall(d, g))), g)

\* cur is the limb n[i] below the rem carried in
BigDivModStep(n, d, i, cur) ==
    BigDivModBelow(n, d, i, cur, QuotientLimb(cur, d, 0, LimbBase \div 2))

\* long division of the limbs n[i], ..., n[1] with rem carried in from above
BigDivModFrom(n, d, i, rem) ==
    IF i = 0 THEN <<<<>>, rem>>
    ELSE BigDivModStep(n, d, i, BigNorm(<<n[i]>> \o rem))

BigDivModNorm(qr) == <<BigNorm(qr[1]), qr[2]>>

\* <<n // d, n % d>> for naturals n and d > 0
BigDivMod(n, d) == BigDivModNorm(BigDivModFrom(n, d, Len(n), <<>>))

\* the quotient qr[1] with a last bit set when the remainder qr[2] is not 0
DDivSticky(qr) == BigAdd(Shl(qr[1], 1), IF qr[2] = <<>> THEN <<>> ELSE <<1>>)

\* x / y of finite doubles # 0, x.mag being scaled by 2^k
DDivScaled(x, y, k) ==
    DRound(x.neg # y.neg, DDivSticky(BigDivMod(Shl(x.mag, k), y.mag)),
           x.exp - y.exp - k - 1)

\* x / y for y # 0: the quotient is taken to two bits more than a double
\* keeps and a last bit says whether anything is left, then it is rounded
DDiv(x, y) ==
    IF x.kind = "nan" \/ y.kind = "nan" THEN DNaN
    ELSE IF x.kind = "inf"
         THEN (IF y.kind = "inf" THEN DNaN ELSE DInf(x.neg # y.neg))
    ELSE IF y.kind = "inf" \/ x.mag = <<>> THEN DZero
    ELSE DDivScaled(x, y,
                    Max(DoubleBits + 3 + BitLen(y.mag) - BitLen(x.mag), 0))

\* the root r of sc with a last bit set when it is not exact
DSqrtSticky(sc, r) ==
    BigAdd(Shl(r, 1), IF BigMul(r, r) = sc THEN <<>> ELSE <<1>>)

\* the root of sc = m * 2^(2 * t), for the value m * 2^e with an even e
DSqrtOf(sc, e, t) == DRound(FALSE, DSqrtSticky(sc, BigIsqrt(sc)), (e \div 2) - t - 1)

\* the root of m * 2^e with an even e, m being scaled by 2^(2 * t)
DSqrtScaled(m, e, t) == DSqrtOf(Shl(m, 2 * t), e, t)

\* the root of m * 2^e with an even e
DSqrtEven(m, e) ==
    DSqrtScaled(m, e, Max(DoubleBits + 3 - (BitLen(m) \div 2), 0))

\* math.sqrt(x) for x >= 0: the root of the scaled mag is taken to two bits
\* more than a double keeps and a last bit says whether it is exact
DSqrt(x) ==
    IF x.kind # "finite" \/ x.mag = <<>> THEN x
    ELSE IF x.exp % 2 = 1 THEN DSqrtEven(Shl(x.mag, 1), x.exp - 1)
    ELSE DSqrtEven(x.mag, x.exp)

\* x < y for finite doubles of one sign, e being the lower of their exponents
DLtAligned(x, y, e) ==
    IF x.neg THEN BigLt(Shl(y.mag, y.exp - e), Shl(x.mag, x.exp - e))
    ELSE BigLt(Shl(x.mag, x.exp - e), Shl(y.mag, y.exp - e))

\* x < y
DLt(x, y) ==
    IF x.kind = "nan" \/ y.kind = "nan" THEN FALSE
    ELSE IF x.kind = "inf" THEN x.neg /\ ~(y.kind = "inf" /\ y.neg)
    ELSE IF y.kind = "inf" THEN ~y.neg
    ELSE IF x.mag = <<>> THEN y.mag # <<>> /\ ~y.neg
    ELSE IF y.mag = <<>> THEN x.neg
    ELSE IF x.neg # y.neg THEN x.neg
    ELSE IF TopExp(x) # TopExp(y) THEN (TopExp(x) < TopExp(y)) # x.neg
    ELSE DLtAligned(x, y, IF x.exp <= y.exp THEN x.exp ELSE y.exp)

\* the outcome of x ** 2, sq being x * x
DSquareOutcome(x, sq) ==
    IF x.kind = "finite" /\ sq.kind = "inf" THEN Raise("OverflowError")
    ELSE Return(sq)

\* x ** 2 of a float: OverflowError when the square is not finite
DSquare(x) == DSquareOutcome(x, DMul(x, x))

(* ------- math_utils.statistics on lists of floats, in doubles ---------- *)

\* the int a small natural limb sequence stands for
RECURSIVE BigToNat(_)
BigToNat(mag) ==
    IF mag = <<>> THEN 0 ELSE Head(mag) + LimbBase * BigToNat(Tail(mag))

\* index == int(index), for a finite index
DIsInteger(x) == x.exp >= 0

\* int(math.floor(x)) for a finite x >= 0 of small value
DFloor(x) ==
    IF x.exp >= 0 THEN BigToNat(Shl(x.mag, x.exp)) ELSE BigToNat(Shr(x.mag, -x.exp))

\* int(math.ceil(x)) for a finite x >= 0 of small value
DCeil(x) == IF DIsInteger(x) THEN DFloor(x) ELSE DFloor(x) + 1

RECURSIVE DInsert(_, _)
DInsert(x, s) ==
    IF s = <<>> THEN <<x>>
    ELSE IF DLt(x, Head(s)) THEN <<x>> \o s
    ELSE <<Head(s)>> \o DInsert(x, Tail(s))

\* the builtin sorted(values) on a list of floats
RECURSIVE sorted_floats(_)
sorted_floats(values) ==
    IF values = <<>> THEN <<>>
    ELSE DInsert(values[Len(values)],
                 sorted_floats(SubSeq(values, 1, Len(values) - 1)))

\* the median of the sorted list of n floats
median_of_sorted_floats(sorted_values, n) ==
    IF PyMod(n, 2) = 0
    THEN Return(DDiv(DAdd(Item(sorted_values, PyFloorDiv(n, 2) - 1),
                          Item(sorted_values, PyFloorDiv(n, 2))),
                     DFromInt(2)))
    ELSE Return(Item(sorted_values, PyFloorDiv(n, 2)))

\* median on a list of floats
median_floats(values) ==
    IF values = <<>> THEN Raise("ValueError")
    ELSE median_of_sorted_floats(sorted_floats(values), Len(values))

\* lower_value + weight * (upper_value - lower_value)
interpolate_floats(lower_value, upper_value, weight) ==
    DAdd(lower_value, DMul(weight, DSub(upper_value, lower_value)))

\* the percentile between the indexes lower_index and upper_index
percentile_between(sorted_values, index, lower_index, upper_index) ==
    IF DIsInteger(index)
    THEN IF InRange(sorted_values, lower_index)
         THEN Return(Item(sorted_values, lower_index))
         ELSE Raise("IndexError")
    ELSE IF ~InRange(sorted_values, lower_index) THEN Raise("IndexError")
    ELSE IF ~InRange(sorted_values, upper_index) THEN Raise("IndexError")
    ELSE Return(interpolate_floats(Item(sorted_values, lower_index),
                                   Item(sorted_values, upper_index),
                                   DSub(index, DFromInt(lower_index))))

\* the percentile at index = (p / 100) * (n - 1)
percentile_at(sorted_values, p, index) ==
    IF p = 0 THEN Return(Item(sorted_values, 0))
    ELSE IF p = 100 THEN Return(Item(sorted_values, -1))
    ELSE percentile_between(sorted_values, index, DFloor(index), DCeil(index))

\* percentile on a list of floats, for an int p
percentile_floats(values, p) ==
    IF ~(0 <= p /\ p <= 100) THEN Raise("ValueError")
    ELSE IF values = <<>> THEN Raise("ValueError")
    ELSE percentile_at(sorted_floats(values), p,
                       DMul(DDiv(DFromInt(p), DFromInt(100)),
                            DFromInt(Len(values) - 1)))

\* the builtin sum of a list of floats: the terms are added from the left
RECURSIVE DSumFrom(_, _)
DSumFrom(terms, total) ==
    IF terms = <<>> THEN total
    ELSE DSumFrom(Tail(terms), DAdd(total, Head(terms)))

DSum(terms) == DSumFrom(terms, DZero)

\* mean on a list of floats
mean_floats(values) ==
    IF values = <<>> THEN Raise("ValueError")
    ELSE Return(DDiv(DSum(values), DFromInt(Len(values))))

RECURSIVE SquaredDeviations(_, _, _)

\* sq is the outcome of (x - data_mean) ** 2 for the first x of values
SquaredDeviationsWith(values, data_mean, done, sq) ==
    IF sq.raised # "" THEN sq
    ELSE SquaredDeviations(Tail(values), data_mean, Append(done, sq.val))

\* [(x - data_mean) ** 2 for x in values]: the first square that is not
\* finite ends the comprehension with OverflowError
SquaredDeviations(values, data_mean, done) ==
    IF values = <<>> THEN Return(done)
    ELSE SquaredDeviationsWith(values, data_mean, done,
                               DSquare(DSub(Head(values), data_mean)))

\* sum(squared_deviations) / divisor
variance_of_squares(squares, divisor) ==
    IF squares.raised # "" THEN squares
    ELSE IF divisor = 0 THEN Raise("ZeroDivisionError")
    ELSE Return(DDiv(DSum(squares.val), DFromInt(divisor)))

\* variance on a list of floats
variance_floats(values, population) ==
    IF values = <<>> THEN Raise("ValueError")
    ELSE IF TooFewForSample(values, population) THEN Raise("ValueError")
    ELSE variance_of_squares(
             SquaredDeviations(values, mean_floats(values).val, <<>>),
             IF population THEN Len(values) ELSE Len(values) - 1)

\* math.sqrt(variance(data, population))
sqrt_of_variance(v) == IF v.raised # "" THEN v ELSE Return(DSqrt(v.val))

\* standard_deviation on a list of floats
standard_deviation_floats(values, population) ==
    sqrt_of_variance(variance_floats(values, population))

\* z_score > threshold
DZScoreExceeds(z_score, threshold) == DLt(threshold, z_score)

\* for value in values: z_score = abs((value - data_mean) / data_std);
\* if z_score > threshold: outliers.append(value)
RECURSIVE DZScoreList(_, _, _, _)
DZScoreList(values, data_mean, data_std, threshold) ==
    IF values = <<>> THEN <<>>
    ELSE (IF DZScoreExceeds(
                 DAbs(DDiv(DSub(Head(values), data_mean), data_std)), threshold)
          THEN <<Head(values)>> ELSE <<>>)
         \o DZScoreList(Tail(values), data_mean, data_std, threshold)

\* detect_outliers_zscore after data_mean = mean(values) and
\* data_std = standard_deviation(values) have been called
zscore_of_floats(values, data_mean, data_std, threshold) ==
    IF data_mean.raised # "" THEN data_mean
    ELSE IF data_std.raised # "" THEN data_std
    ELSE IF data_std.val = DZero THEN Return(<<>>)
    ELSE Return(DZScoreList(values, data_mean.val, data_std.val, threshold))

\* detect_outliers_zscore on a list of floats, for a float threshold
detect_outliers_zscore_floats(values, threshold) ==
    IF values = <<>> THEN Return(<<>>)
    ELSE IF Len(values) < 2 THEN Return(<<>>)
    ELSE zscore_of_floats(values, mean_floats(values),
                          standard_deviation_floats(values, FALSE), threshold)

(* ------------------------------ actions -------------------------------- *)

Init ==
    /\ op = "none"
    /\ args = <<>>
    /\ raised = ""
    /\ result = NoValue
    /\ gens = [g \in GenIds |-> NoGenerator]
    /\ frames = <<>>
    /\ lists = <<>>

CallIsPrime ==
    /\ op = "none"
    /\ UNCHANGED <<gens, frames, lists>>
    /\ \E n \in -2..MaxN :
        LET out == is_prime(n) IN
        /\ op' = "is_prime"
        /\ args' = <<n>>
        /\ raised' = out.raised
        /\ result' = out.val

CallGeneratePrimes ==
    /\ op = "none"
    /\ UNCHANGED <<gens, frames, lists>>
    /\ \E limit \in -2..MaxN :
        LET out == generate_primes(limit) IN
        /\ op' = "generate_primes"
        /\ args' = <<limit>>
        /\ raised' = out.raised
        /\ result' = out.val

CallPrimeFactors ==
    /\ op = "none"
    /\ UNCHANGED <<gens, frames, lists>>
    /\ \E n \in -2..MaxN :
        LET out == prime_factors(n) IN
        /\ op' = "prime_factors"
        /\ args' = <<n>>
        /\ raised' = out.raised
        /\ result' = out.val

\* extended_gcd raises only TypeError, and the arguments here are ints
CallExtendedGcd ==
    /\ op = "none"
    /\ UNCHANGED <<gens, frames, lists>>
    /\ \E a, b \in -MaxAB..MaxAB :
        /\ op' = "extended_gcd"
        /\ args' = <<a, b>>
        /\ raised' = ""
        /\ result' = extended_gcd(a, b)

CallGcd ==
    /\ op = "none"
    /\ UNCHANGED <<gens, frames, lists>>
    /\ \E m \in Modules : \E a, b \in -MaxAB..MaxAB :
        LET out == gcd_of(m, a, b) IN
        /\ op' = "gcd"
        /\ args' = <<m, a, b>>
        /\ raised' = out.raised
        /\ result' = out.val

CallLcm ==
    /\ op = "none"
    /\ UNCHANGED <<gens, frames, lists>>
    /\ \E m \in Modules : \E a, b \in -MaxAB..MaxAB :
        LET out == lcm_of(m, a, b) IN
        /\ op' = "lcm"
        /\ args' = <<m, a, b>>
        /\ raised' = out.raised
        /\ result' = out.val

\* the caller is done with the outcome and is free to call again
Discard ==
    /\ op # "none"
    /\ frames = <<>>
    /\ op' = "none"
    /\ args' = <<>>
    /\ raised' = ""
    /\ result' = NoValue
    /\ lists' = <<>>
    /\ UNCHANGED <<gens, frames>>

NextNT ==
    \/ CallIsPrime
    \/ CallGeneratePrimes
    \/ CallPrimeFactors
    \/ CallExtendedGcd
    \/ CallGcd
    \/ CallLcm
    \/ Discard

SpecNT == Init /\ [][NextNT]_vars


(* ------------------------- statistics: actions ------------------------- *)

Values == (-1)..MaxVal

\* every list of at most MaxLen values, in every order
Datasets == UNION {[1..n -> Values] : n \in 0..MaxLen}

\* the multipliers handed to detect_outliers_iqr: -0.5, 0, 0.5, 1, 1.5 (default)
Multipliers == {Rat(k, 2) : k \in -1..3}

\* the p handed to percentile, two of them outside [0, 100]
Percents == {-10, 0, 10, 25, 50, 75, 90, 100, 110}

CallQuartiles ==
    /\ op = "none"
    /\ UNCHANGED <<gens, frames, lists>>
    /\ \E data \in Datasets :
        LET out == quartiles(data) IN
        /\ op' = "quartiles"
        /\ args' = <<data>>
        /\ raised' = out.raised
        /\ result' = out.val

CallInterquartileRange ==
    /\ op = "none"
    /\ UNCHANGED <<gens, frames, lists>>
    /\ \E data \in Datasets :
        LET out == interquartile_range(data) IN
        /\ op' = "interquartile_range"
        /\ args' = <<data>>
        /\ raised' = out.raised
        /\ result' = out.val

CallPercentile ==
    /\ op = "none"
    /\ UNCHANGED <<gens, frames, lists>>
    /\ \E data \in Datasets : \E p \in Percents :
        LET out == percentile(data, p) IN
        /\ op' = "percentile"
        /\ args' = <<data, p>>
        /\ raised' = out.raised
        /\ result' = out.val

CallDetectOutliersIqr ==
    /\ op = "none"
    /\ UNCHANGED <<gens, frames, lists>>
    /\ \E data \in Datasets : \E multiplier \in Multipliers :
        LET out == detect_outliers_iqr(data, multiplier) IN
        /\ op' = "detect_outliers_iqr"
        /\ args' = <<data, multiplier>>
        /\ raised' = out.raised
        /\ result' = out.val

NextStats ==
    \/ CallQuartiles
    \/ CallInterquartileRange
    \/ CallPercentile
    \/ CallDetectOutliersIqr
    \/ Discard

SpecStats == Init /\ [][NextStats]_vars

(* ---------------- statistics: outlier detection, actions --------------- *)

\* the thresholds handed to detect_outliers_zscore: -0.5, 0, ..., 2 (default)
Thresholds == {Rat(k, 2) : k \in -1..4}

CallDetectOutliersZscore ==
    /\ op = "none"
    /\ UNCHANGED <<gens, frames, lists>>
    /\ \E data \in Datasets : \E threshold \in Thresholds :
        LET out == detect_outliers_zscore(data, threshold) IN
        /\ op' = "detect_outliers_zscore"
        /\ args' = <<data, threshold>>
        /\ raised' = out.raised
        /\ result' = out.val

CallRemoveOutliersIqr ==
    /\ op = "none"
    /\ UNCHANGED <<gens, frames, lists>>
    /\ \E data \in Datasets : \E multiplier \in Multipliers :
        LET out == remove_outliers_iqr(data, multiplier) IN
        /\ op' = "remove_outliers_iqr"
        /\ args' = <<data, multiplier>>
        /\ raised' = out.raised
        /\ result' = out.val

NextOutliers ==
    \/ CallDetectOutliersZscore
    \/ CallRemoveOutliersIqr
    \/ Discard

SpecOutliers == Init /\ [][NextOutliers]_vars

(* ------------------ statistics: descriptive, actions ------------------- *)

CallMean ==
    /\ op = "none"
    /\ UNCHANGED <<gens, frames, lists>>
    /\ \E data \in Datasets :
        LET out == mean(data) IN
        /\ op' = "mean"
        /\ args' = <<data>>
        /\ raised' = out.raised
        /\ result' = out.val

CallMedian ==
    /\ op = "none"
    /\ UNCHANGED <<gens, frames, lists>>
    /\ \E data \in Datasets :
        LET out == median(data) IN
        /\ op' = "median"
        /\ args' = <<data>>
        /\ raised' = out.raised
        /\ result' = out.val

CallMode ==
    /\ op = "none"
    /\ UNCHANGED <<gens, frames, lists>>
    /\ \E data \in Datasets :
        LET out == mode(data) IN
        /\ op' = "mode"
        /\ args' = <<data>>
        /\ raised' = out.raised
        /\ result' = out.val

CallVariance ==
    /\ op = "none"
    /\ UNCHANGED <<gens, frames, lists>>
    /\ \E data \in Datasets : \E population \in BOOLEAN :
        LET out == variance(data, population) IN
        /\ op' = "variance"
        /\ args' = <<data, population>>
        /\ raised' = out.raised
        /\ result' = out.val

CallStandardDeviation ==
    /\ op = "none"
    /\ UNCHANGED <<gens, frames, lists>>
    /\ \E data \in Datasets : \E population \in BOOLEAN :
        LET out == standard_deviation(data, population) IN
        /\ op' = "standard_deviation"
        /\ args' = <<data, population>>
        /\ raised' = out.raised
        /\ result' = out.val

CallDataRange ==
    /\ op = "none"
    /\ UNCHANGED <<gens, frames, lists>>
    /\ \E data \in Datasets :
        LET out == data_range(data) IN
        /\ op' = "data_range"
        /\ args' = <<data>>
        /\ raised' = out.raised
        /\ result' = out.val

NextDescriptive ==
    \/ CallMean
    \/ CallMedian
    \/ CallMode
    \/ CallVariance
    \/ CallStandardDeviation
    \/ CallDataRange
    \/ CallQuartiles
    \/ CallInterquartileRange
    \/ CallPercentile
    \/ Discard

SpecDescriptive == Init /\ [][NextDescriptive]_vars

(* -------------------- statistics: cleaning, actions -------------------- *)

\* ints, finite floats, NaN, the infinities, booleans, None and strings
MixedValues ==
    { PyValue("int", "1"), PyValue("int", "-2"), PyValue("float", "2.5"),
      PyValue("float", "nan"), PyValue("float", "inf"), PyValue("float", "-inf"),
      PyValue("bool", "True"), PyValue("NoneType", "None"), PyValue("str", "'hello'") }

\* every list of at most MaxMixedLen mixed values
MixedLists == UNION {[1..n -> MixedValues] : n \in 0..MaxMixedLen}

CallCleanNumericData ==
    /\ op = "none"
    /\ UNCHANGED <<gens, frames, lists>>
    /\ \E data \in MixedLists :
        LET out == clean_numeric_data(data) IN
        /\ op' = "clean_numeric_data"
        /\ args' = <<data>>
        /\ raised' = out.raised
        /\ result' = out.val

CallIsNumericIterable ==
    /\ op = "none"
    /\ UNCHANGED <<gens, frames, lists>>
    /\ \E data \in MixedLists :
        LET out == is_numeric_iterable(data) IN
        /\ op' = "is_numeric_iterable"
        /\ args' = <<data>>
        /\ raised' = out.raised
        /\ result' = out.val

NextClean ==
    \/ CallCleanNumericData
    \/ CallIsNumericIterable
    \/ Discard

SpecClean == Init /\ [][NextClean]_vars

(* --------- number theory: Fibonacci, divisor sums, n-ary gcd ----------- *)

\* every argument list of at most MaxArgs ints of -MaxArg..MaxArg
ArgLists == UNION {[1..n -> (-MaxArg)..MaxArg] : n \in 0..MaxArgs}

CallFibonacciSequence ==
    /\ op = "none"
    /\ UNCHANGED <<gens, frames, lists>>
    /\ \E n \in -2..MaxFibLen :
        LET out == fibonacci_sequence(n) IN
        /\ op' = "fibonacci_sequence"
        /\ args' = <<n>>
        /\ raised' = out.raised
        /\ result' = out.val

\* the k-th and the next Fibonacci number as unbounded naturals, from those
\* at k \div 2: F(2j) = F(j) * (2 * F(j + 1) - F(j)), F(2j + 1) = F(j)^2 + F(j + 1)^2
RECURSIVE BigFibPair(_)
BigFibPair(k) ==
    IF k = 0 THEN <<<<>>, <<1>>>>
    ELSE LET p == BigFibPair(k \div 2)
             c == BigMul(p[1], BigSub(BigMulSmall(p[2], 2), p[1]))
             d == BigAdd(BigMul(p[1], p[1]), BigMul(p[2], p[2]))
         IN  IF k % 2 = 0 THEN <<c, d>> ELSE <<d, BigAdd(c, d)>>

\* is_fibonacci is called with the ints of -2..MaxN and with the Fibonacci
\* numbers up to the MaxFibIndex-th and their successors
FibonacciInputs ==
    {PyInt(i) : i \in -2..MaxN}
        \cup {[neg |-> FALSE, mag |-> BigAdd(BigFibPair(k)[1], BigFromNat(d))] :
                k \in 0..MaxFibIndex, d \in 0..1}

CallIsFibonacci ==
    /\ op = "none"
    /\ UNCHANGED <<gens, frames, lists>>
    /\ \E n \in FibonacciInputs :
        LET out == is_fibonacci(n) IN
        /\ op' = "is_fibonacci"
        /\ args' = <<n>>
        /\ raised' = out.raised
        /\ result' = out.val

CallIsPerfectNumber ==
    /\ op = "none"
    /\ UNCHANGED <<gens, frames, lists>>
    /\ \E n \in -2..MaxN :
        LET out == is_perfect_number(n) IN
        /\ op' = "is_perfect_number"
        /\ args' = <<n>>
        /\ raised' = out.raised
        /\ result' = out.val

CallIsAbundantNumber ==
    /\ op = "none"
    /\ UNCHANGED <<gens, frames, lists>>
    /\ \E n \in -2..MaxN :
        LET out == is_abundant_number(n) IN
        /\ op' = "is_abundant_number"
        /\ args' = <<n>>
        /\ raised' = out.raised
        /\ result' = out.val

CallGcdMultiple ==
    /\ op = "none"
    /\ UNCHANGED <<gens, frames, lists>>
    /\ \E numbers \in ArgLists :
        LET out == gcd_multiple(numbers) IN
        /\ op' = "gcd_multiple"
        /\ args' = numbers
        /\ raised' = out.raised
        /\ result' = out.val

CallLcmMultiple ==
    /\ op = "none"
    /\ UNCHANGED <<gens, frames, lists>>
    /\ \E numbers \in ArgLists :
        LET out == lcm_multiple(numbers) IN
        /\ op' = "lcm_multiple"
        /\ args' = numbers
        /\ raised' = out.raised
        /\ result' = out.val

NextNumbers ==
    \/ CallFibonacciSequence
    \/ CallIsFibonacci
    \/ CallIsPerfectNumber
    \/ CallIsAbundantNumber
    \/ CallGcdMultiple
    \/ CallLcmMultiple
    \/ Discard

SpecNumbers == Init /\ [][NextNumbers]_vars

(* ------------------------ math_operations.multiply --------------------- *)

\* ints, floats, booleans, strings, None and a list
MultiplyOperands ==
    { PyValue("int", "0"), PyValue("int", "4"), PyValue("int", "5"),
      PyValue("int", "-3"), PyValue("float", "2.5"),
      PyValue("bool", "True"), PyValue("bool", "False"),
      PyValue("str", "'4'"), PyValue("str", "'5'"),
      PyValue("NoneType", "None"), PyValue("list", "[1, 2]") }

CallMultiply ==
    /\ op = "none"
    /\ UNCHANGED <<gens, frames, lists>>
    /\ \E a \in MultiplyOperands, b \in MultiplyOperands :
        LET out == multiply(a, b) IN
        /\ op' = "multiply"
        /\ args' = <<a, b>>
        /\ raised' = out.raised
        /\ result' = out.val

CallMoIsPrime ==
    /\ op = "none"
    /\ UNCHANGED <<gens, frames, lists>>
    /\ \E n \in (-MaxAB)..MaxN :
        LET out == mo_is_prime(n) IN
        /\ op' = "math_operations.is_prime"
        /\ args' = <<n>>
        /\ raised' = out.raised
        /\ result' = out.val

NextOperations ==
    \/ CallMultiply
    \/ CallMoIsPrime
    \/ Discard

SpecOperations == Init /\ [][NextOperations]_vars

(* ---------------- number_theory.fibonacci_generator -------------------- *)

\* the limits handed to fibonacci_generator
Limits == -1..MaxLimit

\* gen = fibonacci_generator(limit)
CallFibonacciGenerator(g) ==
    /\ gens[g].pc = "absent"
    /\ \E limit \in Limits : gens' = [gens EXCEPT ![g] = NewGenerator(limit)]
    /\ UNCHANGED <<op, args, raised, result, frames, lists>>

\* next(gen), as a traversal does until the generator is exhausted
ResumeGenerator(g) ==
    /\ gens[g].pc \in {"created", "suspended"}
    /\ gens' = [gens EXCEPT ![g] = GeneratorNext(gens[g])]
    /\ UNCHANGED <<op, args, raised, result, frames, lists>>

\* the exhausted generator object is dropped
ReleaseGenerator(g) ==
    /\ gens[g].pc = "done"
    /\ gens' = [gens EXCEPT ![g] = NoGenerator]
    /\ UNCHANGED <<op, args, raised, result, frames, lists>>

NextGenerators ==
    \/ \E g \in GenIds : CallFibonacciGenerator(g)
    \/ \E g \in GenIds : ResumeGenerator(g)
    \/ \E g \in GenIds : ReleaseGenerator(g)

\* a traversal (a for loop, list(gen)) keeps asking for the next value
SpecGenerators ==
    /\ Init
    /\ [][NextGenerators]_vars
    /\ \A g \in GenIds : WF_vars(ResumeGenerator(g))

(* --------------- statistics: the two IQR filters, actions -------------- *)

NextIqr ==
    \/ CallDetectOutliersIqr
    \/ CallRemoveOutliersIqr
    \/ Discard

SpecIqr == Init /\ [][NextIqr]_vars

(* ------------- number_theory.extended_gcd, call by call ---------------- *)

\* the innermost activation
Top == frames[Len(frames)]

\* the caller calls extended_gcd(a, b): the first activation starts
EnterExtendedGcd ==
    /\ op = "none"
    /\ \E a, b \in -MaxAB..MaxAB :
        /\ op' = "extended_gcd"
        /\ args' = <<a, b>>
        /\ frames' = <<Frame(a, b, "start")>>
    /\ raised' = ""
    /\ result' = NoValue
    /\ UNCHANGED <<gens, lists>>

\* b is not 0: the activation evaluates a % b and calls extended_gcd(b, a % b);
\* an exception of a % b ends every activation
RecurseExtendedGcd ==
    /\ frames # <<>> /\ Top.pc = "start"
    /\ ~BaseCase(Top.b)
    /\ LET m == ModOutcome(Top.a, Top.b) IN
        IF m.raised # ""
        THEN frames' = <<>> /\ raised' = m.raised
        ELSE /\ frames' = Append([frames EXCEPT ![Len(frames)].pc = "called"],
                                 Frame(Top.b, m.val, "start"))
             /\ raised' = raised
    /\ UNCHANGED <<op, args, result, gens, lists>>

\* b is 0: the innermost activation returns a, 1, 0
ReturnBaseCase ==
    /\ frames # <<>> /\ Top.pc = "start"
    /\ BaseCase(Top.b)
    /\ result' = <<Top.a, 1, 0>>
    /\ frames' = SubSeq(frames, 1, Len(frames) - 1)
    /\ UNCHANGED <<op, args, raised, gens, lists>>

\* the call it made has returned gcd, x1, y1: the activation returns
\* gcd, y1, x1 - (a // b) * y1
ReturnFromRecursion ==
    /\ frames # <<>> /\ Top.pc = "called"
    /\ LET x1 == result[2]
           y1 == result[3]
       IN  result' = <<result[1], y1, x1 - PyFloorDiv(Top.a, Top.b) * y1>>
    /\ frames' = SubSeq(frames, 1, Len(frames) - 1)
    /\ UNCHANGED <<op, args, raised, gens, lists>>

\* the interpreter runs the call until it has returned or raised
RunExtendedGcd ==
    RecurseExtendedGcd \/ ReturnBaseCase \/ ReturnFromRecursion

NextRecursion ==
    \/ EnterExtendedGcd
    \/ RecurseExtendedGcd
    \/ ReturnBaseCase
    \/ ReturnFromRecursion
    \/ Discard

\* every step of a running call pushes or pops an activation
SpecRecursion == Init /\ [][NextRecursion]_vars /\ WF_frames(RunExtendedGcd)

(* ---------------- statistics on lists of floats, actions --------------- *)

\* the float literal n/d, the double nearest to the fraction
Decimal(n, d) == DDiv(DFromInt(n), DFromInt(d))

\* 0.0, 0.1, 0.5, 1.0, -0.3 and 2.0 ** 600
FloatValues ==
    { DZero, Decimal(1, 10), Decimal(1, 2), DFromInt(1), Decimal(-3, 10),
      Double(FALSE, <<1>>, 600) }

\* every list of at most MaxFloatLen of these floats, in every order
FloatDatasets == UNION {[1..n -> FloatValues] : n \in 0..MaxFloatLen}

\* the p handed to percentile with a list of floats
FloatPercents == {0, 25, 50, 100, 110}

\* the thresholds handed to detect_outliers_zscore: 0.5 and 2.0 (default)
FloatThresholds == {Decimal(1, 2), DFromInt(2)}

CallMedianOfFloats ==
    /\ op = "none"
    /\ UNCHANGED <<gens, frames, lists>>
    /\ \E data \in FloatDatasets :
        LET out == median_floats(data) IN
        /\ op' = "median"
        /\ args' = <<data>>
        /\ raised' = out.raised
        /\ result' = out.val

CallPercentileOfFloats ==
    /\ op = "none"
    /\ UNCHANGED <<gens, frames, lists>>
    /\ \E data \in FloatDatasets : \E p \in FloatPercents :
        LET out == percentile_floats(data, p) IN
        /\ op' = "percentile"
        /\ args' = <<data, p>>
        /\ raised' = out.raised
        /\ result' = out.val

CallDetectOutliersZscoreOfFloats ==
    /\ op = "none"
    /\ UNCHANGED <<gens, frames, lists>>
    /\ \E data \in FloatDatasets : \E threshold \in FloatThresholds :
        LET out == detect_outliers_zscore_floats(data, threshold) IN
        /\ op' = "detect_outliers_zscore"
        /\ args' = <<data, threshold>>
        /\ raised' = out.raised
        /\ result' = out.val

NextFloats ==
    \/ CallMedianOfFloats
    \/ CallPercentileOfFloats
    \/ CallDetectOutliersZscoreOfFloats
    \/ Discard

SpecFloats == Init /\ [][NextFloats]_vars

(* -------- statistics: the calls with their list objects, actions ------- *)

\* the p, multipliers and thresholds of the calls whose objects are recorded
FramePercents == {50, 110}

FrameMultipliers == {Rat(0, 1), Rat(3, 2)}

FrameThresholds == {Rat(1, 1)}

\* the caller's list is the first object; the objects of the call follow
CallMedianOnList ==
    /\ op = "none"
    /\ UNCHANGED <<gens, frames>>
    /\ \E data \in Datasets :
        LET out == median(data) IN
        /\ op' = "median"
        /\ args' = <<data>>
        /\ raised' = out.raised
        /\ result' = out.val
        /\ lists' = median_lists(<<data>>, 1)

CallQuartilesOnList ==
    /\ op = "none"
    /\ UNCHANGED <<gens, frames>>
    /\ \E data \in Datasets :
        LET out == quartiles(data) IN
        /\ op' = "quartiles"
        /\ args' = <<data>>
        /\ raised' = out.raised
        /\ result' = out.val
        /\ lists' = quartiles_lists(<<data>>, 1)

CallPercentileOnList ==
    /\ op = "none"
    /\ UNCHANGED <<gens, frames>>
    /\ \E data \in Datasets : \E p \in FramePercents :
        LET out == percentile(data, p) IN
        /\ op' = "percentile"
        /\ args' = <<data, p>>
        /\ raised' = out.raised
        /\ result' = out.val
        /\ lists' = percentile_lists(<<data>>, 1, p)

CallDetectOutliersIqrOnList ==
    /\ op = "none"
    /\ UNCHANGED <<gens, frames>>
    /\ \E data \in Datasets : \E multiplier \in FrameMultipliers :
        LET out == detect_outliers_iqr(data, multiplier) IN
        /\ op' = "detect_outliers_iqr"
        /\ args' = <<data, multiplier>>
        /\ raised' = out.raised
        /\ result' = out.val
        /\ lists' = detect_outliers_iqr_lists(<<data>>, 1, multiplier)

CallDetectOutliersZscoreOnList ==
    /\ op = "none"
    /\ UNCHANGED <<gens, frames>>
    /\ \E data \in Datasets : \E threshold \in FrameThresholds :
        LET out == detect_outliers_zscore(data, threshold) IN
        /\ op' = "detect_outliers_zscore"
        /\ args' = <<data, threshold>>
        /\ raised' = out.raised
        /\ result' = out.val
        /\ lists' = detect_outliers_zscore_lists(<<data>>, 1, threshold)

CallRemoveOutliersIqrOnList ==
    /\ op = "none"
    /\ UNCHANGED <<gens, frames>>
    /\ \E data \in Datasets : \E multiplier \in FrameMultipliers :
        LET out == remove_outliers_iqr(data, multiplier) IN
        /\ op' = "remove_outliers_iqr"
        /\ args' = <<data, multiplier>>
        /\ raised' = out.raised
        /\ result' = out.val
        /\ lists' = remove_outliers_iqr_lists(<<data>>, 1, multiplier)

NextFrame ==
    \/ CallMedianOnList
    \/ CallQuartilesOnList
    \/ CallPercentileOnList
    \/ CallDetectOutliersIqrOnList
    \/ CallDetectOutliersZscoreOnList
    \/ CallRemoveOutliersIqrOnList
    \/ Discard

SpecFrame == Init /\ [][NextFrame]_vars

Next ==
    NextNT \/ NextStats \/ NextOutliers \/ NextDescriptive \/ NextClean
        \/ NextNumbers \/ NextOperations \/ NextGenerators \/ NextIqr
        \/ NextRecursion \/ NextFloats \/ NextFrame

Spec == Init /\ [][Next]_vars

(* ------------------- properties of the number theory ------------------- *)

\* p >= 2 has no divisor in 2..p-1
IsPrimeNumber(p) == p >= 2 /\ \A d \in 2..(p - 1) : p % d # 0

RECURSIVE Product(_)
Product(s) == IF s = <<>> THEN 1 ELSE Head(s) * Product(Tail(s))

\* C1: for limit >= 2 generate_primes(limit) returns exactly the x of
\* 2..limit on which is_prime returns true, in strictly ascending order (so
\* none is missing, none is extra, none is repeated); for limit < 2 it raises
\* ValueError and returns nothing.
C1_GeneratePrimesExact ==
    op = "generate_primes" =>
        LET limit == args[1] IN
        IF limit >= 2
        THEN /\ raised = ""
             /\ \A k \in 1..(Len(result) - 1) : result[k] < result[k + 1]
             /\ {result[k] : k \in DOMAIN result}
                    = {x \in 2..limit : is_prime(x).val = TRUE}
        ELSE raised = "ValueError" /\ result = NoValue

C1_Witness ==
    /\ op = "generate_primes" /\ args = <<30>>
    /\ result = <<2, 3, 5, 7, 11, 13, 17, 19, 23, 29>>

\* C2: is_prime(n) raises ValueError for n < 2 and, for n >= 2, returns true
\* exactly when no d in 2..n-1 divides n.
C2_IsPrimeTrialDivision ==
    op = "is_prime" =>
        LET n == args[1] IN
        IF n < 2
        THEN raised = "ValueError" /\ result = NoValue
        ELSE raised = "" /\ result = (\A d \in 2..(n - 1) : n % d # 0)

\* 49 is odd and its only proper divisor above 1 is its square root
C2_Witness == op = "is_prime" /\ args = <<49>> /\ result = FALSE

\* C3: for n >= 1 prime_factors(n) is a non-decreasing list of primes whose
\* product is n (the empty list for n = 1); for n < 1 it raises ValueError.
C3_PrimeFactorsExact ==
    op = "prime_factors" =>
        LET n == args[1] IN
        IF n >= 1
        THEN /\ raised = ""
             /\ \A k \in 1..(Len(result) - 1) : result[k] <= result[k + 1]
             /\ \A k \in DOMAIN result : IsPrimeNumber(result[k])
             /\ Product(result) = n
             /\ n = 1 => result = <<>>
        ELSE raised = "ValueError" /\ result = NoValue

C3_Witness == op = "prime_factors" /\ args = <<36>> /\ result = <<2, 2, 3, 3>>

C5_GcdIsPositive ==
    (op = "extended_gcd" /\ ~(args[1] = 0 /\ args[2] = 0)) =>
        result[1] = arith_gcd(Abs(args[1]), Abs(args[2])).val

\* C6: in each of the three modules, whenever gcd(a, b) and lcm(a, b) both
\* return, gcd(a, b) * lcm(a, b) = abs(a * b).
C6_GcdTimesLcm ==
    /\ (op = "lcm" /\ raised = "" /\ gcd_of(args[1], args[2], args[3]).raised = "")
          => result * gcd_of(args[1], args[2], args[3]).val = Abs(args[2] * args[3])
    /\ (op = "gcd" /\ raised = "" /\ lcm_of(args[1], args[2], args[3]).raised = "")
          => result * lcm_of(args[1], args[2], args[3]).val = Abs(args[2] * args[3])

\* math_utils.py answers lcm(0, b): the product is then 0 on both sides
C6_Witness ==
    /\ op = "lcm" /\ raised = ""
    /\ args[1] = "math_utils.py" /\ args[2] = 0 /\ args[3] < 0


(* --------------------- properties of the statistics -------------------- *)

\* the k-th smallest element of data, 1 <= k <= Len(data), by counting
KthSmallest(data, k) ==
    CHOOSE v \in {data[i] : i \in DOMAIN data} :
        /\ Cardinality({i \in DOMAIN data : data[i] < v}) < k
        /\ k <= Cardinality({i \in DOMAIN data : data[i] <= v})

\* r is the median of the lo-th .. hi-th smallest elements of data, lo <= hi
IsMedianOfRanks(r, data, lo, hi) ==
    LET m == hi - lo + 1 IN
    IF m % 2 = 0
    THEN 2 * r.num = r.den * ( KthSmallest(data, lo + (m \div 2) - 1)
                             + KthSmallest(data, lo + (m \div 2)) )
    ELSE r.num = r.den * KthSmallest(data, lo + (m \div 2))

C8_QuartilesOrdered ==
    /\ (op = "quartiles" /\ Len(args[1]) >= 3) =>
          /\ raised = ""
          /\ RatLe(result[1], result[2])
          /\ RatLe(result[2], result[3])
    /\ (op = "interquartile_range" /\ Len(args[1]) >= 3) =>
          raised = "" /\ result.num >= 0

\* an unsorted dataset with duplicates and three different quartiles
C8_Witness ==
    /\ op = "quartiles" /\ Len(args[1]) >= 4
    /\ \E i \in 1..(Len(args[1]) - 1) : args[1][i] > args[1][i + 1]
    /\ \E i, j \in DOMAIN args[1] : i # j /\ args[1][i] = args[1][j]
    /\ RatLt(result[1], result[2]) /\ RatLt(result[2], result[3])

\* C9: for a non-empty dataset with ascending sort s (1-based here) of length
\* n and p in [0, 100], percentile returns s[1] for p = 0, s[n] for p = 100,
\* and otherwise, with index = (p/100)(n-1): s[index+1] when index is an
\* integer, else s[f+1] + (index - f)(s[f+2] - s[f+1]) with f = floor(index);
\* it raises nothing, so no position outside the list is read.
C9_PercentileInterpolates ==
    (op = "percentile" /\ args[1] # <<>> /\ 0 <= args[2] /\ args[2] <= 100) =>
        LET data == args[1]
            p == args[2]
            n == Len(data)
            f == (p * (n - 1)) \div 100
            r == (p * (n - 1)) % 100
        IN  /\ raised = ""
            /\ IF p = 0 THEN result = FromInt(KthSmallest(data, 1))
               ELSE IF p = 100 THEN result = FromInt(KthSmallest(data, n))
               ELSE IF r = 0 THEN result = FromInt(KthSmallest(data, f + 1))
               ELSE /\ f + 2 <= n
                    /\ 100 * result.num
                         = result.den * ( 100 * KthSmallest(data, f + 1)
                                        + r * ( KthSmallest(data, f + 2)
                                              - KthSmallest(data, f + 1) ) )

\* an interpolated percentile: p = 90 of [1, -1, 0], index 1.8, gives 0.8
C9_Witness ==
    /\ op = "percentile" /\ args = << <<1, -1, 0>>, 90 >>
    /\ result = [num |-> 4, den |-> 5]

\* the bounds Q1 - multiplier * IQR and Q3 + multiplier * IQR of a dataset
\* of at least 3 numbers
IqrLower(data, m) ==
    LET q == quartiles(data).val IN RatSub(q[1], RatMul(m, RatSub(q[3], q[1])))

IqrUpper(data, m) ==
    LET q == quartiles(data).val IN RatAdd(q[3], RatMul(m, RatSub(q[3], q[1])))

RECURSIVE SumSquares(_)
SumSquares(values) ==
    IF values = <<>> THEN 0
    ELSE Head(values) * Head(values) + SumSquares(Tail(values))

\* |x - mean| / sample_stddev > t for an element x of data, where the
\* elements of data are not all equal: with n = Len(data), S the sum and Q
\* the sum of squares, mean = S/n and stddev^2 = (nQ - S^2) / (n(n-1))
ZScoreAbove(data, x, t) ==
    LET n == Len(data)
        S == Sum(data)
        Q == SumSquares(data)
    IN  \/ t.num < 0
        \/ (n * x - S) * (n * x - S) * (n - 1) * t.den * t.den
              > t.num * t.num * n * (n * Q - S * S)

C12_RemoveOutliersIqrExact ==
    (op = "remove_outliers_iqr" /\ Len(args[1]) >= 3) =>
        LET data == args[1]
            m == args[2]
            detected == detect_outliers_iqr(data, m).val
            lower == IqrLower(data, m)
            upper == IqrUpper(data, m)
            NotDetected(x) == \A k \in DOMAIN detected : detected[k] # x
            Unflagged(x) == ~(RatLt(FromInt(x), lower) \/ RatLt(upper, FromInt(x)))
        IN  /\ raised = ""
            /\ result = SelectSeq(data, NotDetected)
            /\ result = SelectSeq(data, Unflagged)

\* a flagged value that occurs twice is removed twice and something is kept
C12_Witness ==
    /\ op = "remove_outliers_iqr" /\ raised = "" /\ Len(args[1]) >= 3
    /\ result # <<>>
    /\ \E i, j \in DOMAIN args[1] :
          /\ i < j /\ args[1][i] = args[1][j]
          /\ \A k \in DOMAIN result : result[k] # args[1][i]

\* C14: mean, median, mode, variance, standard_deviation, data_range,
\* quartiles, interquartile_range and percentile raise (ValueError) and
\* return nothing on an empty dataset; variance and standard_deviation with
\* population = false raise on exactly 1 element; quartiles raises on 1 or 2.
C14_InsufficientDataRaises ==
    /\ ( /\ op \in {"mean", "median", "mode", "variance", "standard_deviation",
                    "data_range", "quartiles", "interquartile_range", "percentile"}
         /\ args[1] = <<>> )
          => (raised = "ValueError" /\ result = NoValue)
    /\ ( /\ op \in {"variance", "standard_deviation"}
         /\ args[2] = FALSE /\ Len(args[1]) = 1 )
          => (raised = "ValueError" /\ result = NoValue)
    /\ (op = "quartiles" /\ Len(args[1]) \in {1, 2})
          => (raised = "ValueError" /\ result = NoValue)

\* the sample standard deviation of a single data point is refused
C14_Witness ==
    /\ op = "standard_deviation" /\ Len(args[1]) = 1 /\ args[2] = FALSE
    /\ raised = "ValueError"


\* C13: clean_numeric_data(clean_numeric_data(x)) = clean_numeric_data(x),
\* and clean_numeric_data(x) is the sub-list of x, in input order, of the
\* int and float elements that are neither booleans nor NaN.
C13_CleanIdempotent ==
    op = "clean_numeric_data" =>
        LET x == args[1]
            Numeric(v) == v.type \in {"int", "float"} /\ v.repr # "nan"
        IN  /\ raised = ""
            /\ clean_numeric_data(result).val = result
            /\ result = SelectSeq(x, Numeric)

\* an input with a boolean, a NaN and an infinity, of which only the
\* infinity is kept
C13_Witness ==
    /\ op = "clean_numeric_data"
    /\ args = << <<PyValue("bool", "True"), PyValue("float", "nan"),
                   PyValue("float", "inf")>> >>
    /\ result = <<PyValue("float", "inf")>>

\* d divides x (every d # 0 divides 0)
Divides(d, x) == d # 0 /\ Abs(x) % Abs(d) = 0

\* g is the non-negative greatest common divisor of the absolute values of xs:
\* 0 when every x is 0, otherwise the largest d >= 1 dividing every x
IsGcdOfAll(g, xs) ==
    IF \A i \in DOMAIN xs : xs[i] = 0 THEN g = 0
    ELSE /\ g >= 1
         /\ \A i \in DOMAIN xs : Divides(g, xs[i])
         /\ \A d \in 1..(MaxArg + 1) :
                (\A i \in DOMAIN xs : Divides(d, xs[i])) => d <= g

\* C15: gcd_multiple raises ValueError without arguments and otherwise returns
\* the non-negative greatest common divisor of the absolute values of all its
\* arguments, the early exit at 1 notwithstanding.
C15_GcdMultipleExact ==
    op = "gcd_multiple" =>
        IF args = <<>> THEN raised = "ValueError"
        ELSE raised = "" /\ IsGcdOfAll(result, args)

\* the loop left at 1 after the second of three arguments, the third one unread
C15_Witness ==
    /\ op = "gcd_multiple"
    /\ Len(args) = 3
    /\ args[1] = 4 /\ args[2] = -3 /\ args[3] = 6
    /\ raised = "" /\ result = 1

\* C16: lcm_multiple raises ValueError without arguments or with a zero in any
\* position, and otherwise returns the smallest positive integer divisible by
\* every argument.
C16_LcmMultipleExact ==
    op = "lcm_multiple" =>
        IF args = <<>> \/ (\E i \in DOMAIN args : args[i] = 0)
        THEN raised = "ValueError"
        ELSE /\ raised = ""
             /\ result >= 1
             /\ \A i \in DOMAIN args : Divides(args[i], result)
             /\ \A m \in 1..(result - 1) :
                    \E i \in DOMAIN args : ~Divides(args[i], m)

\* a zero in the last position only, after non-zero arguments of both signs
C16_Witness ==
    /\ op = "lcm_multiple"
    /\ args = <<4, -6, 0>>
    /\ raised = "ValueError"

\* the Fibonacci sequence 0, 1, 1, 2, 3, 5, ... up to its first term beyond
\* every number is_fibonacci is asked about
FibonacciTerms == [k \in 0..(MaxFibIndex + 2) |-> BigFibPair(k)[1]]

\* the natural n is a term of the Fibonacci sequence
InFibonacciSequence(n) == \E k \in DOMAIN FibonacciTerms : FibonacciTerms[k] = n

\* C17: is_fibonacci raises ValueError for n < 0 and otherwise returns True
\* exactly when n is a term of the Fibonacci sequence, 0 included.
C17_IsFibonacciExact ==
    op = "is_fibonacci" =>
        IF args[1].neg THEN raised = "ValueError"
        ELSE raised = "" /\ result = InFibonacciSequence(args[1].mag)

\* the sum of the d in lo..(n - 1) that divide n, each counted once
RECURSIVE SumOfDivisorsFrom(_, _)
SumOfDivisorsFrom(lo, n) ==
    IF lo >= n THEN 0
    ELSE (IF n % lo = 0 THEN lo ELSE 0) + SumOfDivisorsFrom(lo + 1, n)

ProperDivisorSum(n) == SumOfDivisorsFrom(1, n)

\* C19: is_perfect_number and is_abundant_number raise ValueError for n < 1,
\* return False for 1, and otherwise compare n with a divisor sum equal to
\* the sum of the proper divisors of n, each counted once.
C19_DivisorSumExact ==
    op \in {"is_perfect_number", "is_abundant_number"} =>
        LET n == args[1] IN
        IF n < 1 THEN raised = "ValueError"
        ELSE IF n = 1 THEN raised = "" /\ result = FALSE
        ELSE /\ raised = ""
             /\ DivisorSum(n) = ProperDivisorSum(n)
             /\ result = IF op = "is_perfect_number"
                         THEN ProperDivisorSum(n) = n
                         ELSE ProperDivisorSum(n) > n

\* 16 = 4 * 4 is not abundant: 1 + 2 + 4 + 8 = 15, the root 4 counted once
C19_Witness ==
    /\ op = "is_abundant_number"
    /\ args = <<16>>
    /\ raised = "" /\ result = FALSE


\* C20: multiply raises TypeError, and returns no product, whenever an
\* argument is not a number; a boolean, a string, None and a container are
\* not numbers.
C20_MultiplyRejectsNonNumbers ==
    op = "multiply" =>
        ((\E i \in 1..2 : args[i].type \notin {"int", "float"})
            => raised = "TypeError" /\ result = NoValue)

\* the generator g is in a traversal that has not ended
Traversing(g) == gens[g].pc \in {"created", "suspended"}

\* what the generator g yielded so far is a prefix of the Fibonacci sequence
\* as fibonacci_sequence produces it, with no term above the limit; once the
\* traversal has ended, it is the longest such prefix
YieldsPrefix(g) ==
    LET gen == gens[g]
        k   == Len(gen.yielded)
    IN  (gen.pc # "absent" /\ gen.limit >= 0) =>
            /\ gen.raised = ""
            /\ gen.yielded = fibonacci_sequence(k).val
            /\ \A i \in 1..k : gen.yielded[i] <= gen.limit
            /\ gen.pc = "done" => fibonacci_sequence(k + 1).val[k + 1] > gen.limit

\* C18: for limit >= 0 a traversal of fibonacci_generator(limit) ends after
\* finitely many yields, and yields in order exactly the longest prefix of the
\* Fibonacci sequence (as fibonacci_sequence produces it) whose terms are all
\* <= limit, never a value above limit.
C18_GeneratorYieldsPrefixAndStops ==
    /\ [](\A g \in GenIds : YieldsPrefix(g))
    /\ \A g \in GenIds : Traversing(g) ~> gens[g].pc = "done"

\* a traversal has ended whose last value is the limit itself
C18_Witness ==
    \E g \in GenIds :
        /\ gens[g].pc = "done"
        /\ gens[g].limit = 13
        /\ gens[g].yielded = <<0, 1, 1, 2, 3, 5, 8, 13>>

\* C21: math_operations.is_prime returns False without raising for every
\* n < 2 and, for n >= 2, returns True exactly when n is prime.
C21_MoIsPrimeExact ==
    op = "math_operations.is_prime" =>
        /\ raised = ""
        /\ result = IsPrimeNumber(args[1])

\* 49 is odd and its only proper divisor above 1 is its square root
C21_Witness ==
    op = "math_operations.is_prime" /\ args = <<49>> /\ raised = "" /\ result = FALSE

\* what a traversal of fibonacci_generator(limit) yields when it is the only
\* one: the terms of x, y, x + y, ... up to the first one above limit
RECURSIVE TermsUpTo(_, _, _)
TermsUpTo(x, y, limit) ==
    IF x > limit THEN <<>> ELSE <<x>> \o TermsUpTo(y, x + y, limit)

ConsumedAlone(limit) == TermsUpTo(0, 1, limit)

IsPrefix(s, t) == Len(s) <= Len(t) /\ SubSeq(t, 1, Len(s)) = s

\* the generator g has yielded a prefix of what it yields alone, all of it
\* once its traversal has ended
AsIfAlone(g) ==
    LET gen == gens[g] IN
    /\ IsPrefix(gen.yielded, ConsumedAlone(gen.limit))
    /\ gen.pc = "done" => gen.yielded = ConsumedAlone(gen.limit)

\* a call makes a generator that has yielded nothing, whatever was traversed
\* before, and its first value is 0
StartsAfresh(g) ==
    /\ (gens[g].pc = "absent" /\ gens'[g].pc # "absent")
           => gens'[g].pc = "created" /\ gens'[g].yielded = <<>>
    /\ (gens[g].pc = "created" /\ gens[g].limit >= 0 /\ gens'[g] # gens[g])
           => gens'[g].pc = "suspended" /\ gens'[g].yielded = <<0>>

\* C22: two traversals advanced in any interleaving each yield exactly what
\* they yield when consumed alone, and a call after a finished traversal
\* starts again at 0.
C22_TraversalsIndependent ==
    /\ [](\A g \in GenIds : AsIfAlone(g))
    /\ [][\A g \in GenIds : StartsAfresh(g)]_vars

\* two traversals of different limits under way at once, at different places
C22_Witness ==
    /\ gens[1].pc = "suspended" /\ gens[1].limit = 13
    /\ gens[1].yielded = <<0, 1, 1, 2, 3>>
    /\ gens[2].pc = "suspended" /\ gens[2].limit = 5
    /\ gens[2].yielded = <<0, 1>>

RECURSIVE PickFrom(_, _, _)
PickFrom(data, I, i) ==
    IF i > Len(data) THEN <<>>
    ELSE (IF i \in I THEN <<data[i]>> ELSE <<>>) \o PickFrom(data, I, i + 1)

\* what the call of this state and the call of the other filter on the same
\* arguments return: <<detected, kept>>
IqrParts ==
    IF op = "detect_outliers_iqr"
    THEN <<result, remove_outliers_iqr(args[1], args[2]).val>>
    ELSE <<detect_outliers_iqr(args[1], args[2]).val, result>>

\* C26: for a dataset of at least 3 elements and every multiplier, the
\* results of detect_outliers_iqr and remove_outliers_iqr partition the
\* input: the positions of the input split into two sets, the detected list
\* is the input at the one set and the kept list is the input at the other,
\* each in input order, so the two lengths add up to the length of the
\* input; no value is in both lists.
C26_IqrFiltersPartition ==
    (op \in {"detect_outliers_iqr", "remove_outliers_iqr"} /\ Len(args[1]) >= 3) =>
        LET data == args[1]
            detected == IqrParts[1]
            kept == IqrParts[2]
            I == {i \in DOMAIN data : \E k \in DOMAIN detected : detected[k] = data[i]}
        IN  /\ raised = ""
            /\ detected = PickFrom(data, I, 1)
            /\ kept = PickFrom(data, DOMAIN data \ I, 1)
            /\ Len(detected) + Len(kept) = Len(data)
            /\ \A j \in DOMAIN detected : \A k \in DOMAIN kept : detected[j] # kept[k]

\* both parts are non-empty, a detected value occurs twice and the detected
\* list is not sorted
C26_Witness ==
    /\ op = "remove_outliers_iqr" /\ raised = "" /\ Len(args[1]) >= 3
    /\ result # <<>>
    /\ \E j, k \in DOMAIN IqrParts[1] : j < k /\ IqrParts[1][j] = IqrParts[1][k]
    /\ \E i \in 1..(Len(IqrParts[1]) - 1) : IqrParts[1][i] > IqrParts[1][i + 1]


\* C27: for every sequence of mixed values (ints, finite floats, NaN, the
\* infinities, booleans, None, strings), is_numeric_iterable accepts what
\* clean_numeric_data returns.
C27_CleanedIsNumeric ==
    op = "clean_numeric_data" =>
        /\ raised = ""
        /\ is_numeric_iterable(result) = Return(TRUE)

\* C30: the three two-argument lcm implementations (math_operations.lcm,
\* math_utils.arithmetic.lcm and lcm of src/math_utils.py) agree on every
\* pair of integers: the outcome of a call, a value or ValueError, is the
\* outcome of the other two on the same pair, also when exactly one of a, b
\* is zero.
C30_LcmImplementationsAgree ==
    op = "lcm" =>
        \A m \in Modules :
            lcm_of(m, args[2], args[3]) = [raised |-> raised, val |-> result]

\* a call of extended_gcd is running: it has neither returned nor raised
Recursing == frames # <<>>

\* when an activation (a, b) calls extended_gcd(b, a % b), the new second
\* argument is smaller in absolute value than b, and is 0 or has the sign of b
SecondArgumentShrinks ==
    (Recursing /\ Len(frames') = Len(frames) + 1) =>
        LET b == frames[Len(frames)].b
            r == frames'[Len(frames')].b
        IN  /\ frames'[Len(frames')].a = b
            /\ Abs(r) < Abs(b)
            /\ (b > 0 => r >= 0) /\ (b < 0 => r <= 0)

\* C29: for all integers a and b of any sign the recursion of
\* extended_gcd(a, b) terminates: every recursive call has a second argument
\* strictly smaller in absolute value than b, no activation divides by zero
\* (nothing is raised), and every call that has started returns.
C29_ExtendedGcdTerminates ==
    /\ [][SecondArgumentShrinks]_vars
    /\ [](op = "extended_gcd" => raised = "")
    /\ Recursing ~> (~Recursing /\ op = "extended_gcd" /\ raised = "")
    /\ [](( ~Recursing /\ op = "extended_gcd" /\ raised = "")
             => result = extended_gcd(args[1], args[2]))

\* a call with two negative arguments is four activations deep
C29_Witness ==
    /\ Len(frames) >= 4
    /\ frames[1].a < 0 /\ frames[1].b < 0

\* C25: for every non-empty dataset of numbers, percentile(data, 50) returns
\* what median(data) returns, for odd and for even lengths.
C25_MedianIsPercentile50 ==
    (op = "percentile" /\ args[2] = 50 /\ args[1] # <<>>) =>
        /\ raised = ""
        /\ result = median_floats(args[1]).val

\* C28: for every dataset of at most 5 numbers, detect_outliers_zscore with
\* the default threshold 2.0 returns the empty list.
C28_NoZscoreOutliersUpToFive ==
    (op = "detect_outliers_zscore" /\ Len(args[1]) <= 5 /\ args[2] = DFromInt(2)) =>
        /\ raised = ""
        /\ result = <<>>

\* C23: median, quartiles, percentile, detect_outliers_iqr,
\* detect_outliers_zscore and remove_outliers_iqr leave the caller's input
\* list unchanged in content and order, whether they return or raise: after
\* the call the caller's list object holds what was passed.
C23_CallersListUnchanged ==
    (op \in {"median", "quartiles", "percentile", "detect_outliers_iqr",
             "detect_outliers_zscore", "remove_outliers_iqr"} /\ lists # <<>>) =>
        lists[1] = args[1]

\* an unsorted list with an outlier has gone through remove_outliers_iqr,
\* which made sorted copies and a filtered list
C23_Witness ==
    /\ op = "remove_outliers_iqr" /\ raised = ""
    /\ \E i \in 1..(Len(args[1]) - 1) : args[1][i] > args[1][i + 1]
    /\ result # args[1]
    /\ \E k \in DOMAIN lists : k > 1 /\ lists[k] = sorted(args[1]) /\ lists[k] # args[1]
    /\ lists[Len(lists)] = result
    /\ lists[1] = args[1]

=============================================================================
